---- MODULE Spec2Model ----
(***************************************************************************)
(* Model of the AI-orchestrated generation-and-review pipeline of the     *)
(* OSCE lesson system: the review workflow (ReviewWorkflow in              *)
(* src/src/services/medicalValidator.js), the validators it calls, and     *)
(* the model gateway (AIService in src/src/services/aiService.js).         *)
(*                                                                         *)
(* Numbers.  Validator and category scores are kept in hundredths          *)
(* (score 0.85 is 85).  A value that the code obtains by a division        *)
(* (MedicalValidator.calculateOverallScore) is kept as an exact rational   *)
(* [num, den] with den > 0, so that comparisons and Math.round are exact.  *)
(* A JavaScript object is a record; a property that is undefined is a      *)
(* field that is not in the record's DOMAIN.                               *)
(***************************************************************************)
EXTENDS Integers, Sequences, FiniteSets, TLC

VARIABLES
    dec,        \* one application of processAutoReviewResult to drawn inputs
    reviews,    \* the lesson_reviews table: sequence of rows, id = index
    procs,      \* the in-flight startReviewProcess calls
    call,       \* one callAI invocation of the gateway
    batch,      \* one batchCallAI invocation of the gateway
    fn          \* one application of a function of the generation or
                \* validation pipeline to drawn inputs

vars == <<dec, reviews, procs, call, batch, fn>>

----------------------------------------------------------------------------
(* Exact rationals                                                         *)

Rat(n, d) == [num |-> n, den |-> d]

RatLE(a, b) == a.num * b.den <= b.num * a.den

RatGE(a, b) == RatLE(b, a)

\* Math.round(x) for x = n/d, d > 0: floor(x + 1/2)
MathRound(n, d) == (2 * n + d) \div (2 * d)

----------------------------------------------------------------------------
(* ReviewWorkflow: constructor                                             *)

reviewStages ==
    [PENDING |-> "pending", AUTO_REVIEW |-> "auto_review",
     HUMAN_REVIEW |-> "human_review", APPROVED |-> "approved",
     REJECTED |-> "rejected", REVISION_REQUIRED |-> "revision_required"]

autoReviewCriteria ==
    [autoApprove |-> [minOverallScore |-> 85, minMedicalAccuracy |-> Rat(8, 10),
                      maxSafetyIssues |-> 0],
     autoReject  |-> [maxOverallScore |-> 50, maxMedicalAccuracy |-> Rat(5, 10),
                      minSafetyIssues |-> 3]]

\* String.prototype.startsWith on a grade; a grade is <<letter, label>>
startsWith(grade, letter) == grade[1] = letter

\* medicalValidation.safetyIssues?.length || 0
safetyIssuesCountOf(medicalValidation) ==
    IF "safetyIssues" \in DOMAIN medicalValidation
    THEN Len(medicalValidation.safetyIssues)
    ELSE 0

\* medicalValidation.overallScore / 100
medicalAccuracyOf(medicalValidation) ==
    Rat(medicalValidation.overallScore.num, medicalValidation.overallScore.den * 100)

\* the auto-reject test with <= replaced by < on the two score thresholds
autoRejectTestStrict(overallScore, medicalAccuracy, safetyIssuesCount, grade) ==
    \/ overallScore < autoReviewCriteria.autoReject.maxOverallScore
    \/ ~RatGE(medicalAccuracy, autoReviewCriteria.autoReject.maxMedicalAccuracy)
    \/ safetyIssuesCount >= autoReviewCriteria.autoReject.minSafetyIssues
    \/ startsWith(grade, "F")

autoRejectTest(overallScore, medicalAccuracy, safetyIssuesCount, grade) ==
    \/ overallScore <= autoReviewCriteria.autoReject.maxOverallScore
    \/ RatLE(medicalAccuracy, autoReviewCriteria.autoReject.maxMedicalAccuracy)
    \/ safetyIssuesCount >= autoReviewCriteria.autoReject.minSafetyIssues
    \/ startsWith(grade, "F")

\* the auto-approve test without the grade D exclusion
autoApproveTestNoGradeD(overallScore, medicalAccuracy, safetyIssuesCount, grade) ==
    /\ overallScore >= autoReviewCriteria.autoApprove.minOverallScore
    /\ RatGE(medicalAccuracy, autoReviewCriteria.autoApprove.minMedicalAccuracy)
    /\ safetyIssuesCount <= autoReviewCriteria.autoApprove.maxSafetyIssues
    /\ ~startsWith(grade, "F")

autoApproveTest(overallScore, medicalAccuracy, safetyIssuesCount, grade) ==
    /\ overallScore >= autoReviewCriteria.autoApprove.minOverallScore
    /\ RatGE(medicalAccuracy, autoReviewCriteria.autoApprove.minMedicalAccuracy)
    /\ safetyIssuesCount <= autoReviewCriteria.autoApprove.maxSafetyIssues
    /\ ~startsWith(grade, "D")
    /\ ~startsWith(grade, "F")

\* ReviewWorkflow.processAutoReviewResult: the decision and what is returned
processAutoReviewResult(autoReviewResult) ==
    LET overallScore      == autoReviewResult.overallScore
        medicalValidation == autoReviewResult.medicalValidation
        qualityAssessment == autoReviewResult.qualityAssessment
        safetyIssuesCount == safetyIssuesCountOf(medicalValidation)
        medicalAccuracy   == medicalAccuracyOf(medicalValidation)
        scores == [overall |-> overallScore,
                   medical |-> MathRound(medicalAccuracy.num * 100, medicalAccuracy.den),
                   quality |-> qualityAssessment.overallScore]
    IN  IF autoRejectTest(overallScore, medicalAccuracy, safetyIssuesCount,
                          qualityAssessment.grade)
        THEN [status |-> reviewStages.REJECTED, decision |-> "REJECT",
              humanReviewRequired |-> FALSE,
              reasoning |->
                  IF safetyIssuesCount >= autoReviewCriteria.autoReject.minSafetyIssues
                  THEN <<"below minimum quality", "major medical safety issues">>
                  ELSE <<"below minimum quality">>,
              scores |-> scores]
        ELSE IF autoApproveTest(overallScore, medicalAccuracy, safetyIssuesCount,
                                qualityAssessment.grade)
        THEN [status |-> reviewStages.APPROVED, decision |-> "APPROVE",
              humanReviewRequired |-> FALSE,
              reasoning |-> <<"meets auto-approve standard">>,
              scores |-> scores]
        ELSE [status |-> reviewStages.HUMAN_REVIEW, decision |-> "HUMAN_REVIEW_REQUIRED",
              humanReviewRequired |-> TRUE,
              reasoning |->
                  IF safetyIssuesCount > 0
                  THEN <<"needs expert evaluation", "medical issues need judgement">>
                  ELSE <<"needs expert evaluation">>,
              scores |-> scores]

\* ReviewWorkflow.calculateOverallScore: Math.round(medical * 0.6 + quality * 0.4)
ReviewWorkflow_calculateOverallScore(medicalValidation, qualityAssessment) ==
    LET m == medicalValidation.overallScore
        q == qualityAssessment.overallScore
    IN  MathRound(6 * m.num + 4 * q * m.den, 10 * m.den)

----------------------------------------------------------------------------
(* AIService: registry, selection, failover table                          *)

modelConfigs ==
    [m \in {"gpt-4", "gpt-3.5-turbo", "claude-3-sonnet", "claude-3-haiku"} |->
        IF m \in {"gpt-4", "gpt-3.5-turbo"} THEN [service |-> "openai"]
                                            ELSE [service |-> "claude"]]

RegisteredModels == DOMAIN modelConfigs

NoModel == "undefined"

\* the failover table with a default partner for names it does not hold
getFailoverModelDefaulting(primaryModel) ==
    CASE primaryModel = "gpt-4"           -> "gpt-3.5-turbo"
      [] primaryModel = "claude-3-sonnet" -> "claude-3-haiku"
      [] primaryModel = "gpt-3.5-turbo"   -> "claude-3-haiku"
      [] primaryModel = "claude-3-haiku"  -> "gpt-3.5-turbo"
      [] OTHER                            -> "gpt-3.5-turbo"

\* the failover table with a model that is its own partner
getFailoverModelSelf(primaryModel) ==
    CASE primaryModel = "gpt-4"           -> "gpt-4"
      [] primaryModel = "claude-3-sonnet" -> "claude-3-haiku"
      [] primaryModel = "gpt-3.5-turbo"   -> "claude-3-haiku"
      [] primaryModel = "claude-3-haiku"  -> "gpt-3.5-turbo"
      [] OTHER                            -> NoModel

\* AIService.getFailoverModel: failoverMap[primaryModel]
getFailoverModel(primaryModel) ==
    CASE primaryModel = "gpt-4"           -> "gpt-3.5-turbo"
      [] primaryModel = "claude-3-sonnet" -> "claude-3-haiku"
      [] primaryModel = "gpt-3.5-turbo"   -> "claude-3-haiku"
      [] primaryModel = "claude-3-haiku"  -> "gpt-3.5-turbo"
      [] OTHER                            -> NoModel

\* What one callAI(model, prompt, options) without failover can end in.  With
\* prompt undefined every path throws a TypeError (prompt.includes in mock
\* mode, prompt.length in the logging of the success path and of the catch).
callAIResultKinds(model, promptDefined, mock) ==
    IF ~promptDefined THEN {"error"}
    ELSE IF mock THEN {"content"}
    ELSE IF model \notin RegisteredModels THEN {"error"}
    ELSE {"content", "error"}

----------------------------------------------------------------------------
(* MedicalValidator                                                        *)

\* MedicalValidator.getDefaultValidationResult(type, score)
getDefaultValidationResult(type, score) ==
    [success |-> FALSE,
     type    |-> type,
     data    |->
        CASE type = "medical_accuracy" ->
                 [score |-> score, safetyIssues |-> <<>>, confidence |-> 30]
          [] type = "clinical_relevance" ->
                 [score |-> score, feedback |-> "needs expert"]
          [] type = "pedagogical_quality" ->
                 [score |-> score, recommendations |-> <<"needs teaching expert">>]
          [] OTHER ->
                 [score |-> score, error |-> "validation failed"]]

\* MedicalValidator.parseValidationResponse(content, validationType); a response
\* text is [kind: "nojson"], [kind: "badjson"] or [kind: "json", data: object]
parseValidationResponse(content, validationType) ==
    IF content.kind = "json"
    THEN [success |-> TRUE, data |-> content.data, type |-> validationType]
    ELSE getDefaultValidationResult(validationType, 60)

\* validateMedicalAccuracy / validateClinicalRelevance / validatePedagogicalQuality:
\* outcome is [kind: "error"] (callAI rejected) or a response text
validateDimension(outcome, validationType, fallbackScore) ==
    IF outcome.kind = "error"
    THEN getDefaultValidationResult(validationType, fallbackScore)
    ELSE parseValidationResponse(outcome, validationType)

\* processValidationResult discarding every report once called
processValidationResultAlwaysDefault(result, type) ==
    getDefaultValidationResult(type, 60).data

\* MedicalValidator.processValidationResult(result, type) on a settled promise
processValidationResult(result, type) ==
    IF result.status = "fulfilled" /\ result.value.success
    THEN result.value.data
    ELSE getDefaultValidationResult(type, 60).data

validationWeights ==
    [medicalAccuracy |-> 5, clinicalRelevance |-> 3, pedagogicalQuality |-> 2]

RECURSIVE SumOver(_, _)
SumOver(S, f) ==
    IF S = {} THEN 0
    ELSE LET x == CHOOSE y \in S : TRUE
         IN  f[x] + SumOver(S \ {x}, f)

\* MedicalValidator.calculateOverallScore(validation): weights in tenths, scores
\* in hundredths, result totalScore / totalWeight as a rational (0.5 if no score)
MedicalValidator_calculateOverallScore(validation) ==
    LET keys == {k \in DOMAIN validationWeights :
                    "score" \in DOMAIN validation[k]}
        totalScore  == SumOver(keys, [k \in keys |->
                                         validation[k].score * validationWeights[k]])
        totalWeight == SumOver(keys, [k \in keys |-> validationWeights[k]])
    IN  IF totalWeight > 0 THEN Rat(totalScore, 100 * totalWeight) ELSE Rat(1, 2)

\* validateMedicalContent from the settled promises on: processValidationResult
\* of each, then calculateOverallScore
collectValidation(accuracyResult, relevanceResult, qualityResult) ==
    LET validation ==
            [medicalAccuracy    |-> processValidationResult(accuracyResult, "accuracy"),
             clinicalRelevance  |-> processValidationResult(relevanceResult, "relevance"),
             pedagogicalQuality |-> processValidationResult(qualityResult, "quality")]
    IN  [overallScore |-> MedicalValidator_calculateOverallScore(validation),
         validation   |-> validation]

\* MedicalValidator.validateMedicalContent, given what the three validators'
\* gateway calls ended in; every validator catches, so every promise fulfils
validateMedicalContent(accuracyOutcome, relevanceOutcome, qualityOutcome) ==
    LET settled(v) == [status |-> "fulfilled", value |-> v]
    IN  collectValidation(
            settled(validateDimension(accuracyOutcome, "medical_accuracy", 50)),
            settled(validateDimension(relevanceOutcome, "clinical_relevance", 60)),
            settled(validateDimension(qualityOutcome, "pedagogical_quality", 70)))

----------------------------------------------------------------------------
(* LessonQualityAssessment                                                 *)

assessmentCriteria ==
    [structure |-> [weight |-> 3], content |-> [weight |-> 4],
     pedagogy |-> [weight |-> 2], gradeAlignment |-> [weight |-> 1]]

\* the thresholds read on the 0-100 scale of overallScore
getQualityGradePercent(score) ==
    IF score >= 90 THEN <<"A", "excellent">>
    ELSE IF score >= 80 THEN <<"B", "good">>
    ELSE IF score >= 70 THEN <<"C", "pass">>
    ELSE IF score >= 60 THEN <<"D", "to improve">>
    ELSE <<"F", "fail">>

\* LessonQualityAssessment.getQualityGrade(score), score in thousandths
getQualityGrade(score) ==
    IF score >= 900 THEN <<"A", "excellent">>
    ELSE IF score >= 800 THEN <<"B", "good">>
    ELSE IF score >= 700 THEN <<"C", "pass">>
    ELSE IF score >= 600 THEN <<"D", "to improve">>
    ELSE <<"F", "fail">>

\* LessonQualityAssessment.parseAIAssessment(aiContent): the score
parseAIAssessment(aiContent) ==
    IF aiContent.kind = "json"
    THEN LET raw == IF "score" \in DOMAIN aiContent.data /\ aiContent.data.score # 0
                    THEN aiContent.data.score ELSE 60
         IN  IF raw > 100 THEN 100 ELSE IF raw < 0 THEN 0 ELSE raw
    ELSE 60

\* LessonQualityAssessment.assessCategory: score and weightedScore (thousandths)
assessCategory(outcome, categoryConfig) ==
    LET score == IF outcome.kind = "error" THEN 60 ELSE parseAIAssessment(outcome)
    IN  [score |-> score, weightedScore |-> score * categoryConfig.weight]

\* assessCategory calls aiService.callAI with ONE argument, an object
\* {messages, model, maxTokens, temperature}: the gateway's model parameter is
\* that object (no registry key) and its prompt parameter is undefined.
CategoryCallOutcomes ==
    {[kind |-> k] : k \in UNION {callAIResultKinds("[object Object]", FALSE, mock) :
                                    mock \in BOOLEAN}}

\* LessonQualityAssessment.assessLessonQuality, given the four category calls
assessLessonQuality(outcomes) ==
    LET categoryScores == [c \in DOMAIN assessmentCriteria |->
                              assessCategory(outcomes[c], assessmentCriteria[c])]
        totalWeightedScore ==
            SumOver(DOMAIN assessmentCriteria,
                    [c \in DOMAIN assessmentCriteria |-> categoryScores[c].weightedScore])
    IN  [overallScore |-> MathRound(totalWeightedScore, 10),
         grade |-> getQualityGrade(totalWeightedScore),
         categoryScores |-> categoryScores]

----------------------------------------------------------------------------
(* Bounds of the model                                                     *)

MaxSafetyIssues == 3    \* longest safetyIssues list drawn
NumLessons == 2         \* lesson artifacts that reviews are started for
MaxReviews == 2         \* startReviewProcess calls (one row each) per run
MaxBatch == 3           \* longest request list given to batchCallAI
MaxConcurrency == 2     \* largest maxConcurrency given to batchCallAI
MaxRetryAttempts == 2   \* largest retryAttempts given to batchCallAI

\* safetyIssues lists of every length up to n
SafetyLists(n) == UNION {[1..k -> {"issue"}] : k \in 0..n}

----------------------------------------------------------------------------
(* Idle values of the parts a specification does not exercise              *)

DecIdle == [pc |-> "idle"]
CallIdle == [pc |-> "idle"]
BatchIdle == [pc |-> "idle"]
FnIdle == [pc |-> "idle"]

----------------------------------------------------------------------------
(* SpecDecision: processAutoReviewResult applied to drawn inputs           *)

DecOverallScores == {0, 49, 50, 51, 70, 84, 85, 90, 100}

\* medicalValidation.overallScore values: on the 0-100 scale that the decision
\* divides by 100, and 9/10, a value on the scale the validator produces
DecMedicalScores ==
    {Rat(40, 1), Rat(50, 1), Rat(501, 10), Rat(65, 1), Rat(799, 10), Rat(80, 1),
     Rat(85, 1), Rat(90, 1), Rat(9, 10)}

DecGrades == {getQualityGrade(t) : t \in {950, 850, 750, 650, 500}}

DecMedicalValidations ==
    {[overallScore |-> m] : m \in DecMedicalScores}
    \cup {[overallScore |-> m, safetyIssues |-> s] :
             m \in DecMedicalScores, s \in SafetyLists(MaxSafetyIssues)}

DecInputs ==
    {[overallScore |-> o, medicalValidation |-> mv,
      qualityAssessment |-> [overallScore |-> 60, grade |-> g]] :
        o \in DecOverallScores, mv \in DecMedicalValidations, g \in DecGrades}

DecInit ==
    /\ dec \in {[pc |-> "drawn", input |-> x] : x \in DecInputs}
    /\ reviews = <<>>
    /\ procs = <<>>
    /\ call = CallIdle
    /\ batch = BatchIdle
    /\ fn = FnIdle

Decide ==
    /\ dec.pc = "drawn"
    /\ dec' = [pc |-> "done", input |-> dec.input,
               result |-> processAutoReviewResult(dec.input)]
    /\ UNCHANGED <<reviews, procs, call, batch, fn>>

DecNext == Decide

SpecDecision == DecInit /\ [][DecNext]_vars

\* the inputs of the decision as the claims name them
DecOverall == dec.input.overallScore
DecM == dec.input.medicalValidation.overallScore
DecSafetyCount ==
    IF "safetyIssues" \in DOMAIN dec.input.medicalValidation
    THEN Len(dec.input.medicalValidation.safetyIssues) ELSE 0
DecGradeLetter == dec.input.qualityAssessment.grade[1]

\* medicalAccuracy = M / 100 compared with 0.5 and 0.8, by cross-multiplication
DecAccuracyAtMostHalf == 2 * DecM.num <= 100 * DecM.den
DecAccuracyAtLeast08 == 10 * DecM.num >= 8 * 100 * DecM.den

DecRejectCondition ==
    \/ DecOverall <= 50
    \/ DecAccuracyAtMostHalf
    \/ DecSafetyCount >= 3
    \/ DecGradeLetter = "F"

DecApproveCondition ==
    /\ DecOverall >= 85
    /\ DecAccuracyAtLeast08
    /\ DecSafetyCount = 0
    /\ DecGradeLetter \notin {"D", "F"}

\* C1: processAutoReviewResult decides REJECT (status rejected) whenever
\* overallScore <= 50 or medicalAccuracy <= 0.5 or there are >= 3 safety issues
\* or the grade is F, whatever the other inputs; in particular medicalAccuracy
\* 0.4 rejects for every overallScore, and overallScore 50 with medicalAccuracy
\* 0.9 rejects.
C1_RejectFirst ==
    dec.pc = "done" =>
        /\ DecRejectCondition =>
              dec.result.decision = "REJECT" /\ dec.result.status = "rejected"
        /\ DecM = Rat(40, 1) => dec.result.decision = "REJECT"
        /\ (DecOverall = 50 /\ DecM = Rat(90, 1)) => dec.result.decision = "REJECT"

C1_Witness ==
    /\ dec.pc = "done"
    /\ DecOverall = 50 /\ DecM = Rat(90, 1) /\ DecSafetyCount = 0
    /\ DecGradeLetter = "A"
    /\ dec.result.decision = "REJECT"

----------------------------------------------------------------------------
(* Spec: the review workflow over the lesson_reviews table                 *)
(*                                                                         *)
(* Every await of startReviewProcess is one step of a call; calls and the  *)
(* human-side handlers interleave at these steps.  Every database.query    *)
(* may reject (a storage failure).                                         *)

Lessons == 1..NumLessons

NoResult == [kind |-> "none"]

JsonText(data) == [kind |-> "json", data |-> data]

\* what the three validators' gateway calls can end in: a rejected call, a text
\* without a JSON block, a block that does not parse, or a parsed object whose
\* score (hundredths) may be missing or off the 0..1 scale
AccuracyOutcomes ==
    {[kind |-> "error"], [kind |-> "nojson"],
     JsonText([score |-> 40, safetyIssues |-> <<>>]),
     JsonText([score |-> 90, safetyIssues |-> [i \in 1..MaxSafetyIssues |-> "issue"]]),
     JsonText([score |-> 100, safetyIssues |-> <<>>]),
     JsonText([score |-> 9000, safetyIssues |-> <<>>]),
     JsonText([safetyIssues |-> <<"issue">>])}

RelevanceOutcomes ==
    {[kind |-> "error"], [kind |-> "nojson"], JsonText([score |-> 90]),
     JsonText([score |-> 100]), JsonText([feedback |-> "no score"])}

PedagogyOutcomes ==
    {[kind |-> "error"], [kind |-> "badjson"], JsonText([score |-> 90]),
     JsonText([score |-> 100])}

\* the outcomes drawn where calls interleave: the validators' own failures and
\* one response off the scale, which is what lets a call end in human review
AccuracyOutcomesSmall == {[kind |-> "error"], JsonText([score |-> 9000, safetyIssues |-> <<>>])}

RelevanceOutcomesSmall == {[kind |-> "error"]}

PedagogyOutcomesSmall == {[kind |-> "badjson"]}

StorageOutcomes == {"ok", "storage error"}

Row(lesson) ==
    [lesson_id |-> lesson, status |-> reviewStages.PENDING,
     auto_review_results |-> "null", auto_review_error |-> "null",
     final_decision |-> "null", human_review_decision |-> "null"]

\* ReviewWorkflow.updateReviewRecord: UPDATE lesson_reviews SET ... WHERE id = $1
updateReviewRecord(table, reviewId, updates) ==
    [i \in DOMAIN table |->
        IF i = reviewId
        THEN [f \in DOMAIN table[i] |->
                 IF f \in DOMAIN updates THEN updates[f] ELSE table[i][f]]
        ELSE table[i]]

SetProc(p, r) == procs' = [procs EXCEPT ![p] = r]

Fail(p, message) == [procs[p] EXCEPT !.pc = "failed", !.error = message]

WorkflowInit ==
    /\ reviews = <<>>
    /\ procs = <<>>

\* POST /review/start -> startReviewProcess(lessonData, context): the call is
\* made and runs to its first await, the INSERT of createReviewRecord
StartReviewProcess(lesson, maxCalls) ==
    /\ Len(procs) < maxCalls
    /\ procs' = Append(procs, [pc |-> "inserting", lesson |-> lesson, reviewId |-> 0,
                               auto |-> NoResult, final |-> NoResult,
                               autoError |-> "none", error |-> "none"])
    /\ UNCHANGED reviews

\* createReviewRecord: INSERT ... status = PENDING RETURNING id
CreateReviewRecord(p, db) ==
    /\ procs[p].pc = "inserting"
    /\ IF db = "ok"
       THEN /\ reviews' = Append(reviews, Row(procs[p].lesson))
            /\ SetProc(p, [procs[p] EXCEPT !.pc = "created",
                                           !.reviewId = Len(reviews) + 1])
       ELSE /\ SetProc(p, Fail(p, db))
            /\ UNCHANGED reviews

\* performAutoReview, first await: status := AUTO_REVIEW
AutoReviewStart(p, db) ==
    /\ procs[p].pc = "created"
    /\ IF db = "ok"
       THEN /\ reviews' = updateReviewRecord(reviews, procs[p].reviewId,
                              [status |-> reviewStages.AUTO_REVIEW])
            /\ SetProc(p, [procs[p] EXCEPT !.pc = "validating"])
       ELSE /\ SetProc(p, [procs[p] EXCEPT !.pc = "autoCatch", !.autoError = db])
            /\ UNCHANGED reviews

\* performAutoReview, second await: Promise.all of validateMedicalContent and
\* assessLessonQuality
Validate(p, acc, rel, ped, cats) ==
    /\ procs[p].pc = "validating"
    /\ SetProc(p, [procs[p] EXCEPT
                      !.pc = "saving",
                      !.auto = [medicalValidation |-> validateMedicalContent(acc, rel, ped),
                                qualityAssessment |-> assessLessonQuality(cats)]])
    /\ UNCHANGED reviews

\* performAutoReview, third await: saveAutoReviewResults, then the
\* autoReviewResult with its overallScore is built and returned
SaveAutoReviewResults(p, db) ==
    /\ procs[p].pc = "saving"
    /\ IF db = "ok"
       THEN /\ reviews' = updateReviewRecord(reviews, procs[p].reviewId,
                              [auto_review_results |-> "saved"])
            /\ SetProc(p, [procs[p] EXCEPT
                              !.pc = "deciding",
                              !.auto = [medicalValidation |-> @.medicalValidation,
                                        qualityAssessment |-> @.qualityAssessment,
                                        overallScore |->
                                            ReviewWorkflow_calculateOverallScore(
                                                @.medicalValidation,
                                                @.qualityAssessment)]])
       ELSE /\ SetProc(p, [procs[p] EXCEPT !.pc = "autoCatch", !.autoError = db])
            /\ UNCHANGED reviews

\* performAutoReview, catch: status := HUMAN_REVIEW with auto_review_error, then
\* `throw error`, which startReviewProcess's catch wraps and throws again
AutoReviewCatch(p, db) ==
    /\ procs[p].pc = "autoCatch"
    /\ IF db = "ok"
       THEN /\ reviews' = updateReviewRecord(reviews, procs[p].reviewId,
                              [status |-> reviewStages.HUMAN_REVIEW,
                               auto_review_error |-> procs[p].autoError])
            /\ SetProc(p, Fail(p, procs[p].autoError))
       ELSE /\ SetProc(p, Fail(p, db))
            /\ UNCHANGED reviews

\* processAutoReviewResult (it awaits generateReviewRecommendations)
ProcessAutoReviewResult(p) ==
    /\ procs[p].pc = "deciding"
    /\ SetProc(p, [procs[p] EXCEPT !.pc = "finalizing",
                                   !.final = processAutoReviewResult(procs[p].auto)])
    /\ UNCHANGED reviews

\* startReviewProcess, step 4: the final status is written, the result returned
FinalUpdate(p, db) ==
    /\ procs[p].pc = "finalizing"
    /\ IF db = "ok"
       THEN /\ reviews' = updateReviewRecord(reviews, procs[p].reviewId,
                              [status |-> procs[p].final.status,
                               final_decision |-> procs[p].final.decision])
            /\ SetProc(p, [procs[p] EXCEPT !.pc = "returned"])
       ELSE /\ SetProc(p, Fail(p, db))
            /\ UNCHANGED reviews

\* submitForHumanReview(reviewId, priority)
SubmitForHumanReview(reviewId) ==
    /\ reviewId \in DOMAIN reviews
    /\ reviews' = updateReviewRecord(reviews, reviewId,
                      [status |-> reviewStages.HUMAN_REVIEW])
    /\ UNCHANGED procs

\* the decisions drawn: the three that POST /review/:id/human-decision lets
\* through (humanReviewSchema), and one that only a direct call can carry
HumanDecisions == {"approve", "reject", "revision", "escalate"}

\* String.prototype.toLowerCase
toLowerCase(s) ==
    CASE s = "APPROVE"  -> "approve"
      [] s = "REJECT"   -> "reject"
      [] s = "REVISION" -> "revision"
      [] OTHER          -> s

\* the switch with revision falling into the reject case
humanFinalStatusRevisionRejects(decision) ==
    CASE toLowerCase(decision) = "approve"  -> reviewStages.APPROVED
      [] toLowerCase(decision) = "reject"   -> reviewStages.REJECTED
      [] toLowerCase(decision) = "revision" -> reviewStages.REJECTED
      [] OTHER                              -> "throw"

\* processHumanReviewResult: switch (decision.toLowerCase()); the default
\* case throws
humanFinalStatus(decision) ==
    CASE toLowerCase(decision) = "approve"  -> reviewStages.APPROVED
      [] toLowerCase(decision) = "reject"   -> reviewStages.REJECTED
      [] toLowerCase(decision) = "revision" -> reviewStages.REVISION_REQUIRED
      [] OTHER                              -> "throw"

\* processHumanReviewResult(reviewId, humanReviewData)
ProcessHumanReviewResult(reviewId, decision) ==
    /\ reviewId \in DOMAIN reviews
    /\ IF humanFinalStatus(decision) # "throw"
       THEN reviews' = updateReviewRecord(reviews, reviewId,
                [status |-> humanFinalStatus(decision),
                 human_review_decision |-> decision])
       ELSE UNCHANGED reviews
    /\ UNCHANGED procs

OthersIdle == UNCHANGED <<dec, call, batch, fn>>

Init ==
    /\ WorkflowInit
    /\ dec = DecIdle
    /\ call = CallIdle
    /\ batch = BatchIdle
    /\ fn = FnIdle

\* calls for any lesson interleave with each other and with the human handlers
Next ==
    \/ \E l \in Lessons : StartReviewProcess(l, MaxReviews) /\ OthersIdle
    \/ \E p \in DOMAIN procs, db \in StorageOutcomes :
          CreateReviewRecord(p, db) /\ OthersIdle
    \/ \E p \in DOMAIN procs, db \in StorageOutcomes :
          AutoReviewStart(p, db) /\ OthersIdle
    \/ \E p \in DOMAIN procs, acc \in AccuracyOutcomesSmall,
          rel \in RelevanceOutcomesSmall, ped \in PedagogyOutcomesSmall,
          cats \in [DOMAIN assessmentCriteria -> CategoryCallOutcomes] :
            Validate(p, acc, rel, ped, cats) /\ OthersIdle
    \/ \E p \in DOMAIN procs, db \in StorageOutcomes :
          SaveAutoReviewResults(p, db) /\ OthersIdle
    \/ \E p \in DOMAIN procs, db \in StorageOutcomes :
          AutoReviewCatch(p, db) /\ OthersIdle
    \/ \E p \in DOMAIN procs : ProcessAutoReviewResult(p) /\ OthersIdle
    \/ \E p \in DOMAIN procs, db \in StorageOutcomes :
          FinalUpdate(p, db) /\ OthersIdle
    \/ \E r \in DOMAIN reviews : SubmitForHumanReview(r) /\ OthersIdle
    \/ \E r \in DOMAIN reviews, d \in HumanDecisions :
          ProcessHumanReviewResult(r, d) /\ OthersIdle

Spec == Init /\ [][Next]_vars

----------------------------------------------------------------------------
(* SpecAutoReview: one startReviewProcess call, every validator outcome     *)

AutoReviewNext ==
    \/ \E l \in Lessons : StartReviewProcess(l, 1) /\ OthersIdle
    \/ \E p \in DOMAIN procs, db \in StorageOutcomes :
          CreateReviewRecord(p, db) /\ OthersIdle
    \/ \E p \in DOMAIN procs, db \in StorageOutcomes :
          AutoReviewStart(p, db) /\ OthersIdle
    \/ \E p \in DOMAIN procs, acc \in AccuracyOutcomes,
          rel \in RelevanceOutcomes, ped \in PedagogyOutcomes,
          cats \in [DOMAIN assessmentCriteria -> CategoryCallOutcomes] :
            Validate(p, acc, rel, ped, cats) /\ OthersIdle
    \/ \E p \in DOMAIN procs, db \in StorageOutcomes :
          SaveAutoReviewResults(p, db) /\ OthersIdle
    \/ \E p \in DOMAIN procs, db \in StorageOutcomes :
          AutoReviewCatch(p, db) /\ OthersIdle
    \/ \E p \in DOMAIN procs : ProcessAutoReviewResult(p) /\ OthersIdle
    \/ \E p \in DOMAIN procs, db \in StorageOutcomes :
          FinalUpdate(p, db) /\ OthersIdle

SpecAutoReview == Init /\ [][AutoReviewNext]_vars

----------------------------------------------------------------------------
(* Properties of the review workflow                                       *)

OpenStatuses ==
    {reviewStages.PENDING, reviewStages.AUTO_REVIEW, reviewStages.HUMAN_REVIEW}

TerminalStatuses ==
    {reviewStages.APPROVED, reviewStages.REJECTED, reviewStages.REVISION_REQUIRED}

\* the calls whose performAutoReview has built its autoReviewResult
Scored == {p \in DOMAIN procs : "overallScore" \in DOMAIN procs[p].auto}

\* every score the three validators reported is on the 0..1 scale
ScoresOnScale(validation) ==
    \A k \in DOMAIN validation :
        "score" \in DOMAIN validation[k] => validation[k].score \in 0..100

\* C3: the overallScore handed to the decision table is
\* round(0.6*M + 0.4*Q) with the medical score M and the quality score Q both
\* on the 0-100 scale (so it lies in 0..100), and the medicalAccuracy compared
\* with 0.5 and 0.8 is that M rescaled to [0,1], that is the weighted mean of
\* the validators' scores.
C3_SameScale ==
    \A p \in Scored :
        LET mv   == procs[p].auto.medicalValidation
            mean == MedicalValidator_calculateOverallScore(mv.validation)
            q    == procs[p].auto.qualityAssessment.overallScore
            acc  == medicalAccuracyOf(mv)
        IN  ScoresOnScale(mv.validation) =>
              /\ procs[p].auto.overallScore =
                    MathRound(6 * 100 * mean.num + 4 * q * mean.den, 10 * mean.den)
              /\ procs[p].auto.overallScore \in 0..100
              /\ acc.num * mean.den = mean.num * acc.den

\* C4: once a row's status is approved, rejected or revision_required, no step
\* of startReviewProcess, submitForHumanReview or processHumanReviewResult
\* changes it.
C4_TerminalStatusStays ==
    [][\A i \in DOMAIN reviews :
          reviews[i].status \in TerminalStatuses =>
              reviews'[i].status = reviews[i].status]_vars

\* C5: when performAutoReview throws, the row ends in human_review with the
\* error message stored, and startReviewProcess returns a result (an
\* escalation to human review) instead of throwing.
C5_AutoFailureEscalates ==
    \A p \in DOMAIN procs :
        (procs[p].autoError # "none" /\ procs[p].pc \in {"failed", "returned"}) =>
            /\ procs[p].pc = "returned"
            /\ reviews[procs[p].reviewId].status = reviewStages.HUMAN_REVIEW
            /\ reviews[procs[p].reviewId].auto_review_error = procs[p].autoError

\* C6: every lesson has at most one open row (pending, auto_review or
\* human_review) at any moment.
C6_OneOpenReviewPerLesson ==
    \A l \in Lessons :
        Cardinality({i \in DOMAIN reviews :
                        reviews[i].lesson_id = l
                        /\ reviews[i].status \in OpenStatuses}) <= 1

----------------------------------------------------------------------------
(* SpecGateway: one AIService.callAI invocation                            *)
(*                                                                         *)
(* call.made lists the provider calls (callOpenAI / callClaude) in order,  *)
(* call.failovers counts the recursive callAI invocations.                 *)

UnknownModel == "gpt-5-unregistered"

CallModels == RegisteredModels \cup {UnknownModel}

\* callAI, catch: options.useFailover && !options._isFailover
shouldFailover(options) == options.useFailover /\ ~options._isFailover

\* the options of the retry passed on unchanged
failoverOptionsKept(options) == options

\* callAI, catch: {...options, useFailover: false, _isFailover: true}
failoverOptions(options) == [options EXCEPT !.useFailover = FALSE, !._isFailover = TRUE]

GatewayInit ==
    /\ call \in {[pc |-> "enter", mock |-> mk, primary |-> m, model |-> m,
                  promptDefined |-> pd, useFailover |-> uf,
                  options |-> [useFailover |-> uf, _isFailover |-> FALSE],
                  made |-> <<>>, madeOk |-> <<>>, failovers |-> 0,
                  error |-> "none", content |-> "none"] :
                    mk \in BOOLEAN, m \in CallModels, pd \in BOOLEAN, uf \in BOOLEAN}
    /\ dec = DecIdle
    /\ reviews = <<>>
    /\ procs = <<>>
    /\ batch = BatchIdle
    /\ fn = FnIdle

GatewayOthersIdle == UNCHANGED <<dec, reviews, procs, batch, fn>>

\* callAI, first statement, in mock mode: generateMockResponse(model, prompt,
\* options) answers before the registry is consulted, for any model name;
\* prompt.includes throws a TypeError when prompt is undefined
CallAIMock ==
    /\ call.pc = "enter" /\ call.mock
    /\ call' = IF call.promptDefined
               THEN [call EXCEPT !.pc = "resolved", !.content = "mock"]
               ELSE [call EXCEPT !.pc = "rejected", !.error = "TypeError"]
    /\ GatewayOthersIdle

\* callAI, try: the registry lookup, then callOpenAI or callClaude is invoked
CallAILookup ==
    /\ call.pc = "enter" /\ ~call.mock
    /\ call' = IF call.model \in RegisteredModels
               THEN [call EXCEPT !.pc = "provider", !.made = Append(@, call.model)]
               ELSE [call EXCEPT !.pc = "catch", !.error = "Unknown AI model"]
    /\ GatewayOthersIdle

\* the provider call settles; on success the logging reads prompt.length
ProviderSettles(ok) ==
    /\ call.pc = "provider"
    /\ call' = IF ok /\ call.promptDefined
               THEN [call EXCEPT !.pc = "resolved", !.content = call.model,
                                 !.madeOk = Append(@, TRUE)]
               ELSE IF ok
               THEN [call EXCEPT !.pc = "catch", !.error = "TypeError",
                                 !.madeOk = Append(@, TRUE)]
               ELSE [call EXCEPT !.pc = "catch", !.error = "provider error",
                                 !.madeOk = Append(@, FALSE)]
    /\ GatewayOthersIdle

\* callAI, catch: the logging reads prompt.length, then the failover decision
CallAICatch ==
    /\ call.pc = "catch"
    /\ call' =
         IF ~call.promptDefined
         THEN [call EXCEPT !.pc = "rejected", !.error = "TypeError"]
         ELSE IF shouldFailover(call.options)
                 /\ getFailoverModel(call.model) # NoModel
         THEN [call EXCEPT !.pc = "enter",
                           !.model = getFailoverModel(call.model),
                           !.options = failoverOptions(call.options),
                           !.failovers = @ + 1,
                           !.error = "none"]
         ELSE [call EXCEPT !.pc = "rejected"]
    /\ GatewayOthersIdle

GatewayNext ==
    \/ CallAIMock
    \/ CallAILookup
    \/ \E ok \in BOOLEAN : ProviderSettles(ok)
    \/ CallAICatch

SpecGateway == GatewayInit /\ [][GatewayNext]_vars

CallSettled == call.pc \in {"resolved", "rejected"}

\* the primary provider call was made and failed, with a string prompt
PrimaryFailed ==
    /\ call.promptDefined
    /\ Len(call.madeOk) >= 1
    /\ ~call.madeOk[1]

\* C7: one callAI fails over at most once.  At most two provider calls are
\* made and the retry carries useFailover = false, _isFailover = true; when
\* useFailover is set and the primary provider call fails, exactly one further
\* call is made, to getFailoverModel(primary), and its failure is surfaced
\* without another failover; without useFailover a call to a registered model
\* makes exactly one provider call.
C7_FailoverAtMostOnce ==
    /\ call.pc # "idle" =>
         /\ Len(call.made) <= 2
         /\ call.failovers <= 1
         /\ call.failovers = 1 =>
               call.options = [useFailover |-> FALSE, _isFailover |-> TRUE]
    /\ (CallSettled /\ PrimaryFailed /\ call.useFailover) =>
         /\ call.failovers = 1
         /\ call.made = <<call.primary, getFailoverModel(call.primary)>>
         /\ ~call.madeOk[2] => call.pc = "rejected" /\ call.error = "provider error"
    /\ (CallSettled /\ ~call.useFailover) =>
         /\ call.failovers = 0
         /\ (~call.mock /\ call.primary \in RegisteredModels) =>
               call.made = <<call.primary>>

C7_Witness ==
    /\ call.pc = "rejected"
    /\ call.useFailover
    /\ call.primary = "claude-3-haiku"
    /\ call.made = <<"claude-3-haiku", "gpt-3.5-turbo">>
    /\ call.madeOk = <<FALSE, FALSE>>
    /\ call.failovers = 1

\* C8 as claimed: the failover table consists of bidirectional pairs: the
\* partner B of every registered model A is registered and has A as its
\* partner, so a failover from A lands on a model whose partner is A.
C8_BidirectionalPairs ==
    /\ \A a \in RegisteredModels :
          /\ getFailoverModel(a) \in RegisteredModels
          /\ getFailoverModel(getFailoverModel(a)) = a
    /\ (call.pc # "idle" /\ call.failovers = 1) =>
          getFailoverModel(call.model) = call.primary

\* C8 as amended: every registered model has a registered partner other than
\* itself, and a failover lands on it; only gpt-3.5-turbo and claude-3-haiku
\* are each other's partner (gpt-4 and claude-3-sonnet are nobody's partner).
C8_PartnersRegistered ==
    /\ \A a \in RegisteredModels : getFailoverModel(a) \in RegisteredModels \ {a}
    /\ {a \in RegisteredModels : getFailoverModel(getFailoverModel(a)) = a}
          = {"gpt-3.5-turbo", "claude-3-haiku"}
    /\ (call.pc # "idle" /\ call.failovers = 1) =>
          /\ call.model \in RegisteredModels \ {call.primary}
          /\ call.model = getFailoverModel(call.primary)

C8_Witness ==
    /\ call.pc = "resolved"
    /\ call.failovers = 1
    /\ call.primary = "gpt-4"
    /\ call.content = "gpt-3.5-turbo"
    /\ getFailoverModel(call.model) # call.primary

\* C9 as claimed: callAI with a model name that is not in the registry fails
\* with the unknown-model error and returns no content, with or without
\* useFailover and with mock mode on or off.
C9_UnknownModelAlwaysFails ==
    (CallSettled /\ call.primary = UnknownModel /\ call.promptDefined) =>
        /\ call.pc = "rejected"
        /\ call.error = "Unknown AI model"
        /\ call.content = "none"

\* C9 as amended: with a string prompt and an unregistered model name, callAI
\* with mock mode off fails with the unknown-model error, without a provider
\* call, a failover or content, with or without useFailover; with mock mode on
\* it resolves with the synthetic content.
C9_UnknownModelFailsUnlessMock ==
    (CallSettled /\ call.primary = UnknownModel /\ call.promptDefined) =>
        /\ call.made = <<>> /\ call.failovers = 0
        /\ ~call.mock =>
              /\ call.pc = "rejected"
              /\ call.error = "Unknown AI model"
              /\ call.content = "none"
        /\ call.mock => call.pc = "resolved" /\ call.content = "mock"

C9_Witness ==
    /\ call.pc = "rejected"
    /\ call.primary = UnknownModel
    /\ ~call.mock
    /\ call.useFailover
    /\ call.promptDefined
    /\ call.error = "Unknown AI model"


----------------------------------------------------------------------------
(* SpecBatch: AIService.batchCallAI                                        *)
(* Request k of the list is the number k; results are entries, the        *)
(* undefined entry being the empty record.  calls and succeeded record    *)
(* the callAI invocations made for each request.                          *)

Min(a, b) == IF a < b THEN a ELSE b

\* what an async item function returns when it falls out of its while loop
UndefinedEntry == [undefined |-> TRUE]

\* return { index: i + index, success: true, result, request }
successEntry(i, index, request) ==
    [index |-> i + index, success |-> TRUE, result |-> "content", request |-> request]

\* return { index: i + index, success: false, error: error.message, request }
failureEntry(i, index, request) ==
    [index |-> i + index, success |-> FALSE, error |-> "provider error",
     request |-> request]

\* while (attempts < retryAttempts)
attemptsLeft(attempts, retryAttempts) == attempts < retryAttempts

\* the item function of batch.map up to its first await: a callAI in flight,
\* or undefined when the while loop is not entered
itemStart(retryAttempts) ==
    IF attemptsLeft(0, retryAttempts)
    THEN [pc |-> "calling", attempts |-> 0]
    ELSE [pc |-> "returned", attempts |-> 0, entry |-> UndefinedEntry]

BatchInit ==
    /\ batch \in {[pc |-> "loop", n |-> n, maxConcurrency |-> mc,
                   retryAttempts |-> ra, i |-> 0, items |-> <<>>,
                   results |-> <<>>, calls |-> [k \in 1..n |-> 0],
                   succeeded |-> [k \in 1..n |-> FALSE]] :
                      n \in 0..MaxBatch, mc \in 1..MaxConcurrency,
                      ra \in 0..MaxRetryAttempts}
    /\ dec = DecIdle
    /\ reviews = <<>>
    /\ procs = <<>>
    /\ call = CallIdle
    /\ fn = FnIdle

BatchOthersIdle == UNCHANGED <<dec, reviews, procs, call, fn>>

\* the dispatch with a window one request wider than maxConcurrency
WindowDispatchWide ==
    /\ batch.pc = "loop"
    /\ batch.i < batch.n
    /\ LET size == Min(batch.maxConcurrency + 1, batch.n - batch.i)
           start == itemStart(batch.retryAttempts)
       IN batch' = [batch EXCEPT
              !.pc = "window",
              !.items = [index \in 1..size |-> start],
              !.calls = [k \in 1..batch.n |->
                            IF k \in (batch.i + 1)..(batch.i + size)
                               /\ start.pc = "calling"
                            THEN @[k] + 1 ELSE @[k]]]

\* for (let i = 0; i < requests.length; ...): requests.slice(i, i + maxConcurrency)
\* mapped to item functions, each running to its first await
WindowDispatch ==
    /\ batch.pc = "loop"
    /\ batch.i < batch.n
    /\ LET size == Min(batch.maxConcurrency, batch.n - batch.i)
           start == itemStart(batch.retryAttempts)
       IN batch' = [batch EXCEPT
              !.pc = "window",
              !.items = [index \in 1..size |-> start],
              !.calls = [k \in 1..batch.n |->
                            IF k \in (batch.i + 1)..(batch.i + size)
                               /\ start.pc = "calling"
                            THEN @[k] + 1 ELSE @[k]]]

\* the awaited callAI of item index (1-based in the window) settles
ItemCallReturns(index, ok) ==
    /\ batch.pc = "window"
    /\ index \in DOMAIN batch.items
    /\ batch.items[index].pc = "calling"
    /\ LET k == batch.i + index
           attempts == batch.items[index].attempts + 1
       IN IF ok
          THEN batch' = [batch EXCEPT
                   !.items[index] = [pc |-> "returned", attempts |-> @.attempts,
                       entry |-> successEntry(batch.i, index - 1, k)],
                   !.succeeded[k] = TRUE]
          ELSE IF attempts >= batch.retryAttempts
          THEN batch' = [batch EXCEPT
                   !.items[index] = [pc |-> "returned", attempts |-> attempts,
                       entry |-> failureEntry(batch.i, index - 1, k)]]
          ELSE batch' = [batch EXCEPT
                   !.items[index] = [pc |-> "backoff", attempts |-> attempts]]

\* the backoff timer of item index fires: the while guard is tested again
ItemBackoffEnds(index) ==
    /\ batch.pc = "window"
    /\ index \in DOMAIN batch.items
    /\ batch.items[index].pc = "backoff"
    /\ LET k == batch.i + index
       IN IF attemptsLeft(batch.items[index].attempts, batch.retryAttempts)
          THEN batch' = [batch EXCEPT !.items[index].pc = "calling",
                                      !.calls[k] = @ + 1]
          ELSE batch' = [batch EXCEPT
                   !.items[index] = [pc |-> "returned", attempts |-> @.attempts,
                                     entry |-> UndefinedEntry]]

\* const batchResults = await Promise.all(batchPromises); results.push(...batchResults)
\* and the test for the pause between windows
WindowCollect ==
    /\ batch.pc = "window"
    /\ \A index \in DOMAIN batch.items : batch.items[index].pc = "returned"
    /\ batch' = [batch EXCEPT
           !.results = @ \o [index \in DOMAIN batch.items |-> batch.items[index].entry],
           !.items = <<>>,
           !.pc = IF batch.i + batch.maxConcurrency < batch.n THEN "pause" ELSE "loop",
           !.i = IF batch.i + batch.maxConcurrency < batch.n
                 THEN @ ELSE @ + batch.maxConcurrency]

\* the one-second pause between windows ends; i += maxConcurrency
PauseEnds ==
    /\ batch.pc = "pause"
    /\ batch' = [batch EXCEPT !.pc = "loop", !.i = @ + batch.maxConcurrency]

\* return results
BatchReturn ==
    /\ batch.pc = "loop"
    /\ batch.i >= batch.n
    /\ batch' = [batch EXCEPT !.pc = "done"]

BatchNext ==
    \/ WindowDispatch /\ BatchOthersIdle
    \/ \E index \in 1..MaxConcurrency, ok \in BOOLEAN :
          ItemCallReturns(index, ok) /\ BatchOthersIdle
    \/ \E index \in 1..MaxConcurrency : ItemBackoffEnds(index) /\ BatchOthersIdle
    \/ WindowCollect /\ BatchOthersIdle
    \/ PauseEnds /\ BatchOthersIdle
    \/ BatchReturn /\ BatchOthersIdle

SpecBatch == BatchInit /\ [][BatchNext]_vars

\* C10: batchCallAI resolves with exactly N entries; entry k (0-based) carries
\* index k, the k-th request, and success = true with the result attached
\* exactly when some attempt for that request succeeded, success = false with
\* the error message attached otherwise; for every N, maxConcurrency >= 1 and
\* retryAttempts >= 0.
C10_OneEntryPerRequest ==
    batch.pc = "done" =>
        /\ Len(batch.results) = batch.n
        /\ \A k \in 1..batch.n :
              LET entry == batch.results[k]
              IN /\ entry # UndefinedEntry
                 /\ entry.index = k - 1
                 /\ entry.request = k
                 /\ entry.success = batch.succeeded[k]
                 /\ IF entry.success THEN "result" \in DOMAIN entry
                                     ELSE "error" \in DOMAIN entry


\* C11: a failed item is retried up to retryAttempts times: an entry is
\* reported as failed only after 1 + retryAttempts callAI invocations for its
\* request (the initial call and retryAttempts retries), and a request whose
\* attempt succeeded is never invoked again.
C11_RetriesAfterInitialCall ==
    /\ \A k \in 1..Len(batch.results) :
          LET entry == batch.results[k]
          IN (entry # UndefinedEntry /\ ~entry.success) =>
                 batch.calls[k] = 1 + batch.retryAttempts
    /\ batch.pc = "window" =>
          \A index \in DOMAIN batch.items :
              batch.succeeded[batch.i + index] =>
                 batch.items[index].pc = "returned"


----------------------------------------------------------------------------
(* SpecGenerate: LessonGenerator.generateLessonContent applied to the      *)
(* content of a successful callAI response.  A response text is a sequence *)
(* of tokens; JSON.parse and the /\{[\s\S]*\}/ match are computed on it.   *)

MaxTextLen == 4     \* longest response text drawn, in tokens

Tokens == {"{", "}", "key:", "1", "null", "prose"}

ResponseTexts == UNION {[1..n -> Tokens] : n \in 0..MaxTextLen}

RECURSIVE isJSONValue(_)
\* the JSON grammar on tokens: a number, null, {} or {key: value}
isJSONValue(text) ==
    \/ text = <<"1">>
    \/ text = <<"null">>
    \/ text = <<"{", "}">>
    \/ /\ Len(text) >= 4
       /\ text[1] = "{" /\ text[2] = "key:" /\ text[Len(text)] = "}"
       /\ isJSONValue(SubSeq(text, 3, Len(text) - 1))

\* the JavaScript value of a JSON text
jsValue(text) ==
    CASE text = <<"1">>    -> [type |-> "number"]
      [] text = <<"null">> -> [type |-> "null"]
      [] OTHER             -> [type |-> "object", generationError |-> FALSE]

\* JSON.parse(text): the value, or a SyntaxError
JSONparse(text) ==
    IF isJSONValue(text) THEN [ok |-> TRUE, value |-> jsValue(text)]
                         ELSE [ok |-> FALSE, error |-> "SyntaxError"]

\* content.match(/\{[\s\S]*\}/): from the first { to the last }, or no match
jsonMatch(content) ==
    LET opens  == {i \in 1..Len(content) : content[i] = "{"}
        closes == {i \in 1..Len(content) : content[i] = "}"}
    IN IF opens = {} \/ closes = {} THEN [found |-> FALSE]
       ELSE LET a == CHOOSE i \in opens : \A j \in opens : i <= j
                b == CHOOSE i \in closes : \A j \in closes : i >= j
            IN IF a < b THEN [found |-> TRUE, text |-> SubSeq(content, a, b)]
                        ELSE [found |-> FALSE]

\* createFallbackContent(rawContent)
createFallbackContent(rawContent) ==
    [type |-> "object", generationError |-> TRUE]

\* repairJSONResponse(content)
repairJSONResponse(content) ==
    LET m == jsonMatch(content)
    IN IF m.found
       THEN IF JSONparse(m.text).ok THEN JSONparse(m.text).value
                                    ELSE createFallbackContent(content)
       ELSE createFallbackContent(content)

\* lessonContent.metadata = {...}: a TypeError on null and, the class body
\* being strict code, on a primitive
assignMetadata(lessonContent) ==
    IF lessonContent.type = "object"
    THEN [kind |-> "returned", artifact |-> lessonContent, metadata |-> TRUE]
    ELSE [kind |-> "thrown", error |-> "TypeError"]

\* generateLessonContent from the resolved callAI on
generateLessonContent(content) ==
    LET parsed == JSONparse(content)
        lessonContent == IF parsed.ok THEN parsed.value
                                      ELSE repairJSONResponse(content)
    IN assignMetadata(lessonContent)

GenerateInit ==
    /\ fn \in {[pc |-> "drawn", content |-> t] : t \in ResponseTexts}
    /\ dec = DecIdle
    /\ reviews = <<>>
    /\ procs = <<>>
    /\ call = CallIdle
    /\ batch = BatchIdle

FnOthersIdle == UNCHANGED <<dec, reviews, procs, call, batch>>

GenerateLessonContent ==
    /\ fn.pc = "drawn"
    /\ fn' = [pc |-> "done", content |-> fn.content,
              result |-> generateLessonContent(fn.content)]
    /\ FnOthersIdle

GenerateNext == GenerateLessonContent

SpecGenerate == GenerateInit /\ [][GenerateNext]_vars

\* the stub is synthesized: neither direct parsing nor extraction succeeded
StubSynthesized(content) ==
    /\ ~JSONparse(content).ok
    /\ LET m == jsonMatch(content)
       IN m.found => ~JSONparse(m.text).ok

\* C12: generateLessonContent never throws because of the content of a
\* successful response: for every response text it yields an artifact object,
\* which carries generationError = true exactly when the stub was synthesized.
C12_MalformedNeverThrows ==
    fn.pc = "done" =>
        /\ fn.result.kind = "returned"
        /\ fn.result.artifact.type = "object"
        /\ fn.result.artifact.generationError <=> StubSynthesized(fn.content)


----------------------------------------------------------------------------
(* SpecValidate: one MedicalValidator.validateMedicalContent call.  The    *)
(* three validators are dispatched together; each settles on its own, in   *)
(* any order; the results are collected when all three have settled.       *)

ValidatorKeys == {"medicalAccuracy", "clinicalRelevance", "pedagogicalQuality"}

\* the validationType each validator passes to parseValidationResponse
validatorType ==
    [medicalAccuracy    |-> "medical_accuracy",
     clinicalRelevance  |-> "clinical_relevance",
     pedagogicalQuality |-> "pedagogical_quality"]

\* the score each validator's catch passes to getDefaultValidationResult
validatorDefaultScore ==
    [medicalAccuracy |-> 50, clinicalRelevance |-> 60, pedagogicalQuality |-> 70]

\* the responses drawn for the three validators: those of the review workflow
\* and a parsed object with a negative score
ValidateOutcomes ==
    [medicalAccuracy    |-> AccuracyOutcomes
                               \cup {JsonText([score |-> -20, safetyIssues |-> <<>>])},
     clinicalRelevance  |-> RelevanceOutcomes \cup {[kind |-> "badjson"]},
     pedagogicalQuality |-> PedagogyOutcomes \cup {[kind |-> "nojson"]}]

Pending == [status |-> "pending"]

ValidateInit ==
    /\ fn \in {[pc |-> "dispatched",
                outcome |-> [medicalAccuracy |-> a, clinicalRelevance |-> r,
                             pedagogicalQuality |-> q],
                promise |-> [k \in ValidatorKeys |-> Pending],
                order |-> <<>>] :
                   a \in ValidateOutcomes.medicalAccuracy,
                   r \in ValidateOutcomes.clinicalRelevance,
                   q \in ValidateOutcomes.pedagogicalQuality}
    /\ dec = DecIdle
    /\ reviews = <<>>
    /\ procs = <<>>
    /\ call = CallIdle
    /\ batch = BatchIdle

\* validateMedicalAccuracy / validateClinicalRelevance / validatePedagogicalQuality
\* returns: its promise fulfils with the parsed report or the default
ValidatorSettles(k) ==
    /\ fn.pc = "dispatched"
    /\ fn.promise[k] = Pending
    /\ fn' = [fn EXCEPT
           !.promise[k] = [status |-> "fulfilled",
                           value |-> validateDimension(fn.outcome[k], validatorType[k],
                                                       validatorDefaultScore[k])],
           !.order = Append(@, k)]
    /\ FnOthersIdle

\* await Promise.allSettled(validationPromises) resumes; the result is built
ValidateCollect ==
    /\ fn.pc = "dispatched"
    /\ \A k \in ValidatorKeys : fn.promise[k] # Pending
    /\ fn' = [pc |-> "done", outcome |-> fn.outcome, promise |-> fn.promise,
              order |-> fn.order,
              result |-> collectValidation(fn.promise.medicalAccuracy,
                                           fn.promise.clinicalRelevance,
                                           fn.promise.pedagogicalQuality)]
    /\ FnOthersIdle

\* performAutoReview: await Promise.all([validateMedicalContent(...),
\* assessLessonQuality(...)]) resumes with both results
AutoReviewCollect(cats) ==
    /\ fn.pc = "done"
    /\ fn' = [pc |-> "reviewed", outcome |-> fn.outcome, promise |-> fn.promise,
              order |-> fn.order, result |-> fn.result,
              auto |-> [medicalValidation |-> fn.result,
                        qualityAssessment |-> assessLessonQuality(cats)]]
    /\ FnOthersIdle

ValidateNext ==
    \/ \E k \in ValidatorKeys : ValidatorSettles(k)
    \/ ValidateCollect
    \/ \E cats \in [DOMAIN assessmentCriteria -> CategoryCallOutcomes] :
          AutoReviewCollect(cats)

SpecValidate == ValidateInit /\ [][ValidateNext]_vars

\* the validator's provider call failed / its response could not be parsed
ProviderFailed(k) == fn.outcome[k].kind = "error"
Unparseable(k) == fn.outcome[k].kind \in {"nojson", "badjson"}

\* C13: when a validator's provider call fails or its response cannot be
\* parsed, the report of that dimension in the result of validateMedicalContent
\* carries that validator's fixed default score (0.5, 0.6, 0.7 on a provider
\* failure), a lowered confidence value and an entry noting the degradation.
C13_DegradedReportKeepsDefault ==
    fn.pc \in {"done", "reviewed"} =>
        \A k \in ValidatorKeys :
            LET report == fn.result.validation[k]
            IN /\ ProviderFailed(k) => report.score = validatorDefaultScore[k]
               /\ (ProviderFailed(k) \/ Unparseable(k)) =>
                     /\ "score" \in DOMAIN report
                     /\ "confidence" \in DOMAIN report
                     /\ DOMAIN report \cap {"error", "strengths", "improvements",
                                            "feedback", "suggestions",
                                            "recommendations"} # {}


\* C14: the three validators are dispatched together and collected
\* independently: whichever of them fail and in whatever order they settle, no
\* promise rejects, validateMedicalContent returns a result in which the report
\* of every validator that did not fail is its own parsed report, unchanged,
\* and performAutoReview goes on with that result.
C14_PartialFailureTolerated ==
    /\ fn.pc = "dispatched" =>
          /\ \A k \in ValidatorKeys : fn.promise[k].status \in {"pending", "fulfilled"}
          /\ (\A k \in ValidatorKeys : fn.promise[k] # Pending) => ENABLED ValidateCollect
    /\ fn.pc \in {"done", "reviewed"} =>
          \A k \in ValidatorKeys :
              fn.outcome[k].kind = "json" =>
                  fn.result.validation[k] = fn.outcome[k].data
    /\ fn.pc = "done" =>
          \E cats \in [DOMAIN assessmentCriteria -> CategoryCallOutcomes] :
              ENABLED AutoReviewCollect(cats)
    /\ fn.pc = "reviewed" => fn.auto.medicalValidation = fn.result

C14_Witness ==
    /\ fn.pc = "reviewed"
    /\ fn.order = <<"pedagogicalQuality", "medicalAccuracy", "clinicalRelevance">>
    /\ fn.outcome.medicalAccuracy = [kind |-> "error"]
    /\ fn.outcome.pedagogicalQuality = [kind |-> "badjson"]
    /\ fn.outcome.clinicalRelevance = JsonText([score |-> 90])
    /\ fn.auto.medicalValidation.validation.clinicalRelevance = [score |-> 90]

\* C15: for every model response, a parseable one whose score is missing,
\* negative or greater than 1 included, the score of each of the three reports
\* and the overall score returned by validateMedicalContent lie in [0,1]
\* (0..100 in hundredths).
C15_ScoresInUnitInterval ==
    fn.pc \in {"done", "reviewed"} =>
        /\ \A k \in ValidatorKeys :
              LET report == fn.result.validation[k]
              IN /\ "score" \in DOMAIN report
                 /\ report.score >= 0
                 /\ report.score <= 100
        /\ RatGE(fn.result.overallScore, Rat(0, 1))
        /\ RatLE(fn.result.overallScore, Rat(1, 1))


----------------------------------------------------------------------------
(* DifficultyEngine.  Scores are exact rationals, kept in lowest terms.    *)

RECURSIVE GCD(_, _)
GCD(a, b) == IF b = 0 THEN a ELSE GCD(b, a % b)

\* n/d in lowest terms (n >= 0, d > 0)
RatNorm(n, d) == LET g == GCD(n, d) IN Rat(n \div g, d \div g)

\* a * b, reduced crosswise before multiplying
RatTimes(a, b) ==
    LET g1 == GCD(a.num, b.den)
        g2 == GCD(b.num, a.den)
    IN RatNorm((a.num \div g1) * (b.num \div g2), (a.den \div g2) * (b.den \div g1))

\* a + b
RatPlus(a, b) == RatNorm(a.num * b.den + b.num * a.den, a.den * b.den)

\* Math.max(lo, Math.min(hi, x))
Clamp(lo, hi, x) == IF RatLE(x, lo) THEN lo ELSE IF RatLE(hi, x) THEN hi ELSE x

\* Math.ceil(k * x) for an integer k >= 0
CeilTimes(k, x) ==
    LET r == RatTimes(Rat(k, 1), x) IN (r.num + r.den - 1) \div r.den

\* parseFloat(x.toFixed(3)): x rounded to thousandths
toFixed3(x) ==
    LET r == RatTimes(Rat(1000, 1), x) IN RatNorm(MathRound(r.num, r.den), 1000)

\* this.gradeDifficultyMap (complexity in hundredths)
gradeDifficultyMap ==
    [UGY  |-> [level |-> 1, complexity |-> 20],
     PGY1 |-> [level |-> 2, complexity |-> 35],
     PGY2 |-> [level |-> 3, complexity |-> 50],
     R1   |-> [level |-> 3, complexity |-> 55],
     R2   |-> [level |-> 4, complexity |-> 70],
     R3   |-> [level |-> 4, complexity |-> 80],
     R4   |-> [level |-> 5, complexity |-> 90],
     R5   |-> [level |-> 5, complexity |-> 100]]

\* this.specialtyModifiers (in tenths; the keys are the specialties' names in
\* English: emergency medicine, surgery, internal medicine, pediatrics,
\* obstetrics and gynecology, psychiatry, family medicine)
specialtyModifiers ==
    [emergency  |-> <<12, 13, 12>>,
     surgery    |-> <<13, 12, 13>>,
     internal   |-> <<12, 11, 12>>,
     pediatrics |-> <<13, 12, 11>>,
     obgyn      |-> <<12, 13, 11>>,
     psychiatry |-> <<14, 13, 12>>,
     family     |-> <<11, 11, 10>>]

\* this.contentTypeDifficulty: base (in tenths)
contentTypeDifficulty ==
    [skill |-> [base |-> 3], examination |-> [base |-> 4],
     procedure |-> [base |-> 6], disease |-> [base |-> 7]]

\* a property of a destructured object, or its default
field(object, name, default) ==
    IF name \in DOMAIN object THEN object[name] ELSE default

\* calculateHistoryAdjustment(userHistory, gradeLevel); avgQualityScore is a
\* rational, recentPerformance and approvalRate are in hundredths
calculateHistoryAdjustment(userHistory) ==
    LET avgQualityScore       == field(userHistory, "avgQualityScore", Rat(7, 10))
        recentPerformance     == field(userHistory, "recentPerformance", 70)
        totalLessonsCompleted == field(userHistory, "totalLessonsCompleted", 0)
        approvalRate          == field(userHistory, "approvalRate", 70)
        base == RatPlus(Rat(4, 5), RatTimes(Rat(2, 5), avgQualityScore))
        recent == IF recentPerformance > 85 THEN Rat(11, 10)
                  ELSE IF recentPerformance < 60 THEN Rat(9, 10) ELSE Rat(1, 1)
        experience == IF totalLessonsCompleted > 50 THEN Rat(21, 20)
                      ELSE IF totalLessonsCompleted < 10 THEN Rat(19, 20) ELSE Rat(1, 1)
        approval == IF approvalRate > 90 THEN Rat(11, 10)
                    ELSE IF approvalRate < 50 THEN Rat(17, 20) ELSE Rat(1, 1)
    IN Clamp(Rat(7, 10), Rat(13, 10),
             RatTimes(RatTimes(RatTimes(base, recent), experience), approval))

\* calculateContextAdjustment(knowledgeContext)
calculateContextAdjustment(knowledgeContext) ==
    LET nationalExamFrequency      == field(knowledgeContext, "nationalExamFrequency", 50)
        clinicalImportance         == field(knowledgeContext, "clinicalImportance", "medium")
        procedureComplexity        == field(knowledgeContext, "procedureComplexity", "medium")
        differentialDiagnosisCount == field(knowledgeContext, "differentialDiagnosisCount", 3)
        frequency == IF nationalExamFrequency > 80 THEN Rat(11, 10)
                     ELSE IF nationalExamFrequency < 30 THEN Rat(19, 20) ELSE Rat(1, 1)
        importance == CASE clinicalImportance = "critical" -> Rat(23, 20)
                        [] clinicalImportance = "high"     -> Rat(11, 10)
                        [] clinicalImportance = "low"      -> Rat(9, 10)
                        [] OTHER                           -> Rat(1, 1)
        complexity == CASE procedureComplexity = "high" -> Rat(6, 5)
                        [] procedureComplexity = "low"  -> Rat(9, 10)
                        [] OTHER                        -> Rat(1, 1)
        differential == IF differentialDiagnosisCount > 5 THEN Rat(11, 10)
                        ELSE IF differentialDiagnosisCount < 2 THEN Rat(19, 20)
                        ELSE Rat(1, 1)
    IN Clamp(Rat(4, 5), Rat(6, 5),
             RatTimes(RatTimes(RatTimes(frequency, importance), complexity), differential))

\* isGradeAppropriate(difficultyLevel, gradeLevel)
isGradeAppropriate(difficultyLevel, gradeLevel) ==
    LET appropriateMap ==
            [UGY  |-> {"low", "moderate"},
             PGY1 |-> {"low", "moderate", "challenging"},
             PGY2 |-> {"moderate", "challenging"},
             R1   |-> {"moderate", "challenging"},
             R2   |-> {"challenging", "advanced"},
             R3   |-> {"challenging", "advanced"},
             R4   |-> {"advanced"},
             R5   |-> {"advanced"}]
    IN gradeLevel \in DOMAIN appropriateMap
       /\ difficultyLevel \in appropriateMap[gradeLevel]

\* the tier table with the low range reaching 0.4
recommendationRangesLowTo04 ==
    <<[level |-> "low",         range |-> <<Rat(0, 1), Rat(2, 5)>>],
      [level |-> "moderate",    range |-> <<Rat(2, 5), Rat(3, 5)>>],
      [level |-> "challenging", range |-> <<Rat(3, 5), Rat(4, 5)>>],
      [level |-> "advanced",    range |-> <<Rat(4, 5), Rat(1, 1)>>]>>

\* getDifficultyRecommendation: the tiers in the order of the object's keys
recommendationRanges ==
    <<[level |-> "low",         range |-> <<Rat(0, 1), Rat(3, 10)>>],
      [level |-> "moderate",    range |-> <<Rat(3, 10), Rat(3, 5)>>],
      [level |-> "challenging", range |-> <<Rat(3, 5), Rat(4, 5)>>],
      [level |-> "advanced",    range |-> <<Rat(4, 5), Rat(1, 1)>>]>>

\* getDifficultyRecommendation(difficultyScore, gradeLevel): the first tier
\* whose closed range holds the score; without one, the moderate entry as it
\* stands in the table (no level, no gradeAppropriate)
getDifficultyRecommendation(difficultyScore, gradeLevel) ==
    LET hits == {i \in DOMAIN recommendationRanges :
                    /\ RatGE(difficultyScore, recommendationRanges[i].range[1])
                    /\ RatLE(difficultyScore, recommendationRanges[i].range[2])}
    IN IF hits = {} THEN [range |-> recommendationRanges[2].range]
       ELSE LET i == CHOOSE j \in hits : \A h \in hits : j <= h
            IN [level |-> recommendationRanges[i].level,
                range |-> recommendationRanges[i].range,
                gradeAppropriate |->
                    isGradeAppropriate(recommendationRanges[i].level, gradeLevel)]


\* calculateDynamicDifficulty(params) for a known gradeLevel; "" is no
\* specialty, an absent userHistory / knowledgeContext is undefined
calculateDynamicDifficulty(params) ==
    LET gradeInfo == gradeDifficultyMap[params.gradeLevel]
        s1 == Rat(gradeInfo.complexity, 100)
        s2 == IF params.specialty # "" /\ params.specialty \in DOMAIN specialtyModifiers
              THEN LET specialtyMod == specialtyModifiers[params.specialty]
                       avgModifier == RatNorm(specialtyMod[1] + specialtyMod[2]
                                                 + specialtyMod[3],
                                              10 * Len(specialtyMod))
                   IN RatTimes(s1, avgModifier)
              ELSE s1
        s3 == IF params.contentType \in DOMAIN contentTypeDifficulty
              THEN RatTimes(RatPlus(s2, Rat(contentTypeDifficulty[params.contentType].base,
                                            10)),
                            Rat(1, 2))
              ELSE s2
        normalizedBaseDifficulty == RatNorm(params.baseDifficulty, 5)
        s4 == RatTimes(RatPlus(s3, normalizedBaseDifficulty), Rat(1, 2))
        s5 == IF "userHistory" \in DOMAIN params
              THEN RatTimes(s4, calculateHistoryAdjustment(params.userHistory))
              ELSE s4
        s6 == IF "knowledgeContext" \in DOMAIN params
              THEN RatTimes(s5, calculateContextAdjustment(params.knowledgeContext))
              ELSE s5
        difficultyScore == Clamp(Rat(1, 10), Rat(1, 1), s6)
    IN [difficultyScore |-> toFixed3(difficultyScore),
        difficultyLevel |-> CeilTimes(5, difficultyScore),
        recommendation  |-> getDifficultyRecommendation(difficultyScore,
                                                        params.gradeLevel)]

----------------------------------------------------------------------------
(* SpecDifficulty: calculateDynamicDifficulty applied to drawn params      *)

GradeLevels == DOMAIN gradeDifficultyMap

Specialties == DOMAIN specialtyModifiers \cup {"", "dermatology"}

ContentTypes == DOMAIN contentTypeDifficulty \cup {"case"}

BaseDifficulties == 1..5

\* user histories drawn: {}, a lower average quality alone, the best and the
\* worst record, a middling one
UserHistories ==
    {<<>>,
     [avgQualityScore |-> Rat(1, 2)],
     [avgQualityScore |-> Rat(1, 1), recentPerformance |-> 90,
      totalLessonsCompleted |-> 60, approvalRate |-> 95],
     [avgQualityScore |-> Rat(0, 1), recentPerformance |-> 50,
      totalLessonsCompleted |-> 0, approvalRate |-> 40],
     [avgQualityScore |-> Rat(7, 10), totalLessonsCompleted |-> 20]}

\* knowledge contexts drawn: the hardest, the easiest, one factor only
KnowledgeContexts ==
    {[nationalExamFrequency |-> 90, clinicalImportance |-> "critical",
      procedureComplexity |-> "high", differentialDiagnosisCount |-> 6],
     [nationalExamFrequency |-> 20, clinicalImportance |-> "low",
      procedureComplexity |-> "low", differentialDiagnosisCount |-> 1],
     [clinicalImportance |-> "high"]}

DifficultyParams ==
    {[gradeLevel |-> g, specialty |-> s, contentType |-> c, baseDifficulty |-> b]
        @@ h @@ k :
        g \in GradeLevels, s \in Specialties, c \in ContentTypes,
        b \in BaseDifficulties,
        h \in {<<>>} \cup {("userHistory" :> x) : x \in UserHistories},
        k \in {<<>>} \cup {("knowledgeContext" :> x) : x \in KnowledgeContexts}}

DifficultyInit ==
    /\ fn \in {[pc |-> "drawn", params |-> p] : p \in DifficultyParams}
    /\ dec = DecIdle
    /\ reviews = <<>>
    /\ procs = <<>>
    /\ call = CallIdle
    /\ batch = BatchIdle

CalculateDynamicDifficulty ==
    /\ fn.pc = "drawn"
    /\ fn' = [pc |-> "done", params |-> fn.params,
              result |-> calculateDynamicDifficulty(fn.params)]
    /\ FnOthersIdle

DifficultyNext == CalculateDynamicDifficulty

SpecDifficulty == DifficultyInit /\ [][DifficultyNext]_vars

\* C16: for every known grade level, any specialty and content type, base
\* difficulty 1..5 and any user history and knowledge context,
\* calculateDynamicDifficulty returns difficultyScore in [0.1, 1.0] and
\* difficultyLevel in 1..5 with difficultyLevel = ceil(5 * difficultyScore).
C16_LevelIsCeilOfScore ==
    fn.pc = "done" =>
        /\ RatGE(fn.result.difficultyScore, Rat(1, 10))
        /\ RatLE(fn.result.difficultyScore, Rat(1, 1))
        /\ fn.result.difficultyLevel \in 1..5
        /\ fn.result.difficultyLevel = CeilTimes(5, fn.result.difficultyScore)

\* the params of the scenario: UGY, disease, base difficulty 1, nothing else
ScenarioUGY ==
    fn.params = [gradeLevel |-> "UGY", specialty |-> "", contentType |-> "disease",
                 baseDifficulty |-> 1]

\* C17 as claimed: for UGY, disease and base difficulty 1 the recommendation's
\* tier is low and gradeAppropriate is true.
C17_ScenarioTierLow ==
    (fn.pc = "done" /\ ScenarioUGY) =>
        /\ fn.result.recommendation.level = "low"
        /\ fn.result.recommendation.gradeAppropriate

\* C17 as amended: for UGY, disease and base difficulty 1 the score is
\* ((0.2 + 0.7) / 2 + 0.2) / 2 = 0.325, the level 2, the recommendation's tier
\* moderate and gradeAppropriate true.
C17_ScenarioTierModerate ==
    (fn.pc = "done" /\ ScenarioUGY) =>
        /\ fn.result.difficultyScore = Rat(13, 40)
        /\ fn.result.difficultyLevel = 2
        /\ fn.result.recommendation.level = "moderate"
        /\ fn.result.recommendation.gradeAppropriate

C17_Witness ==
    /\ fn.pc = "done"
    /\ ScenarioUGY
    /\ fn.result.recommendation.level = "moderate"


----------------------------------------------------------------------------
(* LessonGenerator.calculateQualityScore and its four rubrics.  An artifact *)
(* is a record; a property it lacks is absent from its DOMAIN.              *)

has(object, name) == name \in DOMAIN object

\* evaluateCompleteness(content): the share of the required fields that are
\* present and truthy; of the fields drawn only title is a string, and of the
\* values drawn only the empty string is falsy
evaluateCompleteness(content) ==
    LET requiredFields == {"title", "objective", "scenario", "sections",
                           "overallAssessment"}
        presentFields == {f \in requiredFields :
                             /\ has(content, f)
                             /\ f = "title" => content[f] # ""}
    IN RatNorm(Cardinality(presentFields), Cardinality(requiredFields))

\* evaluateStructure(content)
evaluateStructure(content) ==
    LET sections == IF has(content, "sections") THEN content.sections ELSE <<>>
        totalTime == SumOver(DOMAIN sections, [i \in DOMAIN sections |-> sections[i].duration])
        diff == totalTime - content.duration
        time == IF has(content, "sections") /\ diff <= 2 /\ diff >= -2
                THEN Rat(1, 5) ELSE Rat(0, 1)
        count == IF has(content, "sections") /\ Len(sections) >= 3 /\ Len(sections) <= 8
                 THEN Rat(1, 5) ELSE Rat(0, 1)
        objectives == IF has(content, "objective") /\ Len(content.objective) >= 2
                         /\ Len(content.objective) <= 6
                      THEN Rat(1, 10) ELSE Rat(0, 1)
    IN Clamp(Rat(0, 1), Rat(1, 1),
             RatPlus(RatPlus(RatPlus(Rat(1, 2), time), count), objectives))

\* evaluateDifficultyAlignment(content, difficultyInfo)
evaluateDifficultyAlignment(content, difficultyInfo) ==
    IF difficultyInfo.recommendation.gradeAppropriate THEN Rat(4, 5) ELSE Rat(1, 2)

\* evaluateEducationalValue(content)
evaluateEducationalValue(content) ==
    LET sections == IF has(content, "sections") THEN content.sections ELSE <<>>
        criteria == IF \E i \in DOMAIN sections :
                          Cardinality(sections[i].assessmentCriteria) >= 3
                    THEN Rat(1, 5) ELSE Rat(0, 1)
        notes == IF has(content, "instructorNotes")
                    /\ Cardinality(DOMAIN content.instructorNotes) >= 2
                 THEN Rat(1, 5) ELSE Rat(0, 1)
        tasks == IF \E i \in DOMAIN sections : Len(sections[i].tasks) >= 2
                 THEN Rat(1, 10) ELSE Rat(0, 1)
    IN Clamp(Rat(0, 1), Rat(1, 1),
             RatPlus(RatPlus(RatPlus(Rat(1, 2), criteria), notes), tasks))

\* the weighted sum of the four rubric scores: 30%, 25%, 25%, 20%
weightedRubricSum(content, difficultyInfo) ==
    RatPlus(RatPlus(RatTimes(evaluateCompleteness(content), Rat(3, 10)),
                    RatTimes(evaluateStructure(content), Rat(1, 4))),
            RatPlus(RatTimes(evaluateDifficultyAlignment(content, difficultyInfo),
                             Rat(1, 4)),
                    RatTimes(evaluateEducationalValue(content), Rat(1, 5))))

\* calculateQualityScore(content, difficultyInfo): let score = 0.7, the four
\* weighted rubric scores added to it, clamped to [0.3, 1.0]
calculateQualityScore(content, difficultyInfo) ==
    Clamp(Rat(3, 10), Rat(1, 1),
          RatPlus(Rat(7, 10), weightedRubricSum(content, difficultyInfo)))

----------------------------------------------------------------------------
(* SpecQuality: calculateQualityScore applied to drawn artifacts           *)

Section(duration, criteria, tasks) ==
    [duration |-> duration, assessmentCriteria |-> criteria, tasks |-> tasks]

\* section lists drawn: none, three sections filling the 30 minutes with full
\* criteria and tasks, three bare sections of 5 minutes, nine sections
SectionLists ==
    {<<>>,
     [i \in 1..3 |-> Section(10, {"excellent", "good", "needs_improvement"},
                             <<"task", "task">>)],
     [i \in 1..3 |-> Section(5, {}, <<>>)],
     [i \in 1..9 |-> Section(10, {"excellent"}, <<"task">>)]}

Optional(name, values) == {<<>>} \cup {(name :> v) : v \in values}

Artifacts ==
    {[duration |-> 30] @@ t @@ o @@ sc @@ se @@ oa @@ n :
        t  \in Optional("title", {"", "title"}),
        o  \in Optional("objective", {<<>>, <<"objective", "objective">>}),
        sc \in Optional("scenario", {[setting |-> "ward"]}),
        se \in Optional("sections", SectionLists),
        oa \in Optional("overallAssessment", {[scoringMethod |-> "checklist"]}),
        n  \in Optional("instructorNotes",
                        {[preparation |-> "p"],
                         [preparation |-> "p", teachingTips |-> "t"]})}

QualityInit ==
    /\ fn \in {[pc |-> "drawn", content |-> c,
                difficultyInfo |-> [recommendation |-> [gradeAppropriate |-> g]]] :
                   c \in Artifacts, g \in BOOLEAN}
    /\ dec = DecIdle
    /\ reviews = <<>>
    /\ procs = <<>>
    /\ call = CallIdle
    /\ batch = BatchIdle

CalculateQualityScore ==
    /\ fn.pc = "drawn"
    /\ fn' = [pc |-> "done", content |-> fn.content,
              difficultyInfo |-> fn.difficultyInfo,
              result |-> calculateQualityScore(fn.content, fn.difficultyInfo)]
    /\ FnOthersIdle

QualityNext == CalculateQualityScore

SpecQuality == QualityInit /\ [][QualityNext]_vars

\* C18: calculateQualityScore returns a value in [0,1] that equals the
\* weighted sum 0.30*completeness + 0.25*structure + 0.25*difficultyAlignment
\* + 0.20*educationalValue of the four rubric scores.
C18_QualityIsWeightedSum ==
    fn.pc = "done" =>
        /\ RatGE(fn.result, Rat(0, 1))
        /\ RatLE(fn.result, Rat(1, 1))
        /\ fn.result = weightedRubricSum(fn.content, fn.difficultyInfo)


----------------------------------------------------------------------------
(* SpecBatchOps: batch generation (LessonGenerator.batchGenerateLesson and *)
(* the POST /batch-generate handler on top of it) and batch review         *)
(* (ReviewWorkflow.batchReview).  Request k of the list is the number k.   *)

MaxItems == 3       \* longest list given to batch generation / batch review

\* what one startReviewProcess call of batchReview ends in
ReviewOutcomes == {"APPROVE", "REJECT", "HUMAN_REVIEW_REQUIRED", "error"}

\* the number of entries of a list that satisfy r.success
successfulCount(results) == Cardinality({i \in DOMAIN results : results[i].success})

\* the number of entries of a list that satisfy !r.success
failedCount(results) == Cardinality({i \in DOMAIN results : ~results[i].success})

BatchOpsInit ==
    /\ fn \in {[op |-> "batchGenerate", pc |-> "generating", n |-> n,
                results |-> <<>>, savedResults |-> <<>>, j |-> 1] : n \in 0..MaxItems}
          \cup {[op |-> "batchReview", pc |-> "reviewing", n |-> n,
                 results |-> <<>>] : n \in 0..MaxItems}
    /\ dec = DecIdle
    /\ reviews = <<>>
    /\ procs = <<>>
    /\ call = CallIdle
    /\ batch = BatchIdle

\* batchGenerateLesson, one pass of the for loop: generateLesson(request)
\* resolves or rejects
BatchGenerateItem(ok) ==
    /\ fn.op = "batchGenerate" /\ fn.pc = "generating"
    /\ Len(fn.results) < fn.n
    /\ LET request == Len(fn.results) + 1
       IN fn' = [fn EXCEPT !.results = Append(@,
                    IF ok THEN [success |-> TRUE, data |-> "lesson", request |-> request]
                          ELSE [success |-> FALSE, error |-> "generation failed",
                                request |-> request])]
    /\ FnOthersIdle

\* batchGenerateLesson returns results to the route handler
BatchGenerateReturn ==
    /\ fn.op = "batchGenerate" /\ fn.pc = "generating"
    /\ Len(fn.results) = fn.n
    /\ fn' = [fn EXCEPT !.pc = "saving"]
    /\ FnOthersIdle

\* POST /batch-generate, one pass of the save loop: a successful result is
\* INSERTed and pushed with its lessonId, or only logged when the INSERT
\* rejects; a failed result is pushed as it is
RouteSaveResult(db) ==
    /\ fn.op = "batchGenerate" /\ fn.pc = "saving"
    /\ fn.j <= Len(fn.results)
    /\ LET result == fn.results[fn.j]
       IN IF result.success
          THEN fn' = [fn EXCEPT
                   !.j = @ + 1,
                   !.savedResults =
                       IF db = "ok"
                       THEN Append(@, [success |-> TRUE, data |-> result.data,
                                       request |-> result.request,
                                       lessonId |-> fn.j])
                       ELSE @]
          ELSE /\ db = "ok"
               /\ fn' = [fn EXCEPT !.j = @ + 1, !.savedResults = Append(@, result)]
    /\ FnOthersIdle

\* POST /batch-generate: res.json with savedResults and the summary counted
\* on batchGenerateLesson's results
RouteRespond ==
    /\ fn.op = "batchGenerate" /\ fn.pc = "saving"
    /\ fn.j > Len(fn.results)
    /\ fn' = [op |-> fn.op, pc |-> "responded", n |-> fn.n, results |-> fn.results,
              savedResults |-> fn.savedResults, j |-> fn.j,
              response |-> [results |-> fn.savedResults,
                            summary |-> [total |-> fn.n,
                                         successful |-> successfulCount(fn.results),
                                         failed |-> failedCount(fn.results)]]]
    /\ FnOthersIdle

\* batchReview, one pass of the for loop: startReviewProcess(lesson, context)
\* resolves with a decision or rejects
BatchReviewItem(outcome) ==
    /\ fn.op = "batchReview" /\ fn.pc = "reviewing"
    /\ Len(fn.results) < fn.n
    /\ LET lesson == Len(fn.results) + 1
       IN fn' = [fn EXCEPT !.results = Append(@,
                    IF outcome = "error"
                    THEN [lessonId |-> lesson, error |-> "review failed",
                          success |-> FALSE]
                    ELSE [lessonId |-> lesson, reviewId |-> lesson,
                          decision |-> outcome, success |-> TRUE])]
    /\ FnOthersIdle

\* batchReview returns { results, summary }
BatchReviewReturn ==
    /\ fn.op = "batchReview" /\ fn.pc = "reviewing"
    /\ Len(fn.results) = fn.n
    /\ fn' = [op |-> fn.op, pc |-> "returned", n |-> fn.n, results |-> fn.results,
              response |-> [results |-> fn.results,
                            summary |-> [total |-> fn.n,
                                         successful |-> successfulCount(fn.results),
                                         failed |-> failedCount(fn.results)]]]
    /\ FnOthersIdle

BatchOpsNext ==
    \/ \E ok \in BOOLEAN : BatchGenerateItem(ok)
    \/ BatchGenerateReturn
    \/ \E db \in StorageOutcomes : RouteSaveResult(db)
    \/ RouteRespond
    \/ \E outcome \in ReviewOutcomes : BatchReviewItem(outcome)
    \/ BatchReviewReturn

SpecBatchOps == BatchOpsInit /\ [][BatchOpsNext]_vars

\* C19: batch generation (batchGenerateLesson and the /batch-generate response
\* built from it) and batch review over N items of which M fail return exactly
\* N entries in input order, M marked failed and N-M marked succeeded, and the
\* summary counts agree with the entries returned.
C19_OneEntryPerItem ==
    /\ (fn.pc \in {"saving", "responded"}) =>
          /\ Len(fn.results) = fn.n
          /\ \A k \in 1..fn.n : fn.results[k].request = k
    /\ (fn.pc \in {"responded", "returned"}) =>
          /\ Len(fn.response.results) = fn.n
          /\ \A k \in 1..fn.n :
                /\ fn.response.results[k].success = fn.results[k].success
                /\ fn.op = "batchGenerate" => fn.response.results[k].request = k
                /\ fn.op = "batchReview" => fn.response.results[k].lessonId = k
          /\ fn.response.summary.total = fn.n
          /\ fn.response.summary.successful = successfulCount(fn.response.results)
          /\ fn.response.summary.failed = failedCount(fn.response.results)


----------------------------------------------------------------------------
(* SpecHumanReview: one processHumanReviewResult call on a table whose     *)
(* rows are in any stage, with the reviewer columns of lesson_reviews.     *)

Reviewers == {"attending-7", "admin-1"}

\* decision values reaching the service: the three of humanReviewSchema, an
\* upper-case spelling, and two values outside the switch
HumanReviewDecisions == {"approve", "reject", "revision", "APPROVE", "escalate", ""}

\* a lesson_reviews row in a stage, no human review stored yet
HumanReviewRow(lesson, status) ==
    [lesson_id |-> lesson, status |-> status,
     auto_review_results |-> "null", auto_review_error |-> "null",
     final_decision |-> "null", human_review_decision |-> "null",
     human_reviewer_id |-> "null", human_review_comments |-> "null",
     human_review_completed_at |-> "null"]

Stages == {reviewStages[k] : k \in DOMAIN reviewStages}

HumanReviewInit ==
    /\ reviews \in {<<HumanReviewRow(1, s1), HumanReviewRow(2, s2)>> :
                       s1 \in Stages, s2 \in {reviewStages.HUMAN_REVIEW}}
    /\ fn \in {[pc |-> "called", reviewId |-> id,
                humanReviewData |-> [decision |-> d, comments |-> "comments",
                                     reviewer_id |-> r],
                before |-> reviews] :
                   id \in 1..2, d \in HumanReviewDecisions, r \in Reviewers}
    /\ dec = DecIdle
    /\ procs = <<>>
    /\ call = CallIdle
    /\ batch = BatchIdle

HumanOthersIdle == UNCHANGED <<dec, procs, call, batch>>

\* processHumanReviewResult up to its await: the switch; the default case's
\* error is caught and rethrown
HumanReviewSwitch ==
    /\ fn.pc = "called"
    /\ LET finalStatus == humanFinalStatus(fn.humanReviewData.decision)
       IN fn' = IF finalStatus = "throw"
                THEN [pc |-> "thrown", reviewId |-> fn.reviewId,
                      humanReviewData |-> fn.humanReviewData, before |-> fn.before,
                      error |-> "invalid human review decision"]
                ELSE [pc |-> "updating", reviewId |-> fn.reviewId,
                      humanReviewData |-> fn.humanReviewData, before |-> fn.before,
                      finalStatus |-> finalStatus]
    /\ UNCHANGED reviews
    /\ HumanOthersIdle

\* await this.updateReviewRecord(reviewId, {...}) settles: one UPDATE writes
\* status, reviewer, decision, comments and completion time, or rejects
HumanReviewUpdate(db) ==
    /\ fn.pc = "updating"
    /\ IF db = "ok"
       THEN /\ reviews' = updateReviewRecord(reviews, fn.reviewId,
                    [status |-> fn.finalStatus,
                     human_reviewer_id |-> fn.humanReviewData.reviewer_id,
                     human_review_decision |-> fn.humanReviewData.decision,
                     human_review_comments |-> fn.humanReviewData.comments,
                     human_review_completed_at |-> "now"])
            /\ fn' = [pc |-> "returned", reviewId |-> fn.reviewId,
                      humanReviewData |-> fn.humanReviewData, before |-> fn.before,
                      result |-> [success |-> TRUE, finalStatus |-> fn.finalStatus,
                                  decision |-> fn.humanReviewData.decision,
                                  comments |-> fn.humanReviewData.comments]]
       ELSE /\ UNCHANGED reviews
            /\ fn' = [pc |-> "thrown", reviewId |-> fn.reviewId,
                      humanReviewData |-> fn.humanReviewData, before |-> fn.before,
                      error |-> db]
    /\ HumanOthersIdle

HumanReviewNext ==
    \/ HumanReviewSwitch
    \/ \E db \in StorageOutcomes : HumanReviewUpdate(db)

SpecHumanReview == HumanReviewInit /\ [][HumanReviewNext]_vars

\* C20: processHumanReviewResult maps the decision directly to the final
\* state (approve to APPROVED, reject to REJECTED, revision to
\* REVISION_REQUIRED) and stores the reviewer identity and a completion
\* timestamp in the same update; any other decision value raises an error and
\* leaves the Review Record unchanged.
C20_HumanDecisionMapsToFinalState ==
    LET decision == toLowerCase(fn.humanReviewData.decision)
        valid == decision \in {"approve", "reject", "revision"}
    IN /\ fn.pc \in {"called", "updating", "thrown"} => reviews = fn.before
       /\ ~valid => fn.pc \in {"called", "thrown"}
       /\ fn.pc = "returned" =>
             /\ valid
             /\ decision = "approve"  => fn.result.finalStatus = reviewStages.APPROVED
             /\ decision = "reject"   => fn.result.finalStatus = reviewStages.REJECTED
             /\ decision = "revision" => fn.result.finalStatus = reviewStages.REVISION_REQUIRED
             /\ reviews[fn.reviewId].status = fn.result.finalStatus
             /\ reviews[fn.reviewId].human_reviewer_id = fn.humanReviewData.reviewer_id
             /\ reviews[fn.reviewId].human_review_completed_at = "now"
             /\ reviews[fn.reviewId].human_review_decision = fn.humanReviewData.decision
             /\ \A i \in DOMAIN reviews : i # fn.reviewId => reviews[i] = fn.before[i]

C20_Witness ==
    /\ fn.pc = "returned"
    /\ fn.humanReviewData.decision = "revision"
    /\ fn.before[fn.reviewId].status = reviewStages.HUMAN_REVIEW
    /\ reviews[fn.reviewId].status = reviewStages.REVISION_REQUIRED
    /\ reviews[fn.reviewId].human_reviewer_id = "attending-7"


-----------------------------------------------------------------------------
(* LessonGenerator.postProcessContent                                      *)

MaxSections == 3
MaxSectionDuration == 3

\* a JS number n/d: an integer has den = 1, Infinity is 1/0 and NaN is 0/0
Num(n) == Rat(n, 1)

NaN == Rat(0, 0)

Infinity == Rat(1, 0)

\* x is truthy as a number: neither 0 nor NaN
truthyNum(x) == x.num # 0

\* a + b
numPlus(a, b) ==
    IF a = NaN \/ b = NaN THEN NaN
    ELSE IF a.den = 0 \/ b.den = 0 THEN Infinity
    ELSE Num(a.num + b.num)

\* a / b for integers a >= 0 and b >= 0
numDivide(a, b) ==
    IF b.num = 0 THEN (IF a.num = 0 THEN NaN ELSE Infinity)
    ELSE Rat(a.num, b.num)

\* a * ratio for an integer a >= 0
numTimes(a, ratio) ==
    IF ratio = NaN THEN NaN
    ELSE IF ratio.den = 0 THEN (IF a.num = 0 THEN NaN ELSE Infinity)
    ELSE Rat(a.num * ratio.num, ratio.den)

\* Math.round(x): NaN and Infinity are returned as they are
MathRoundNum(x) == IF x.den = 0 THEN x ELSE Num(MathRound(x.num, x.den))

\* section.duration || 0
durationOrZero(section) ==
    IF has(section, "duration") /\ truthyNum(section.duration)
    THEN section.duration ELSE Num(0)

RECURSIVE totalSectionTimeOf(_)
\* sections.reduce((sum, section) => sum + (section.duration || 0), 0)
totalSectionTimeOf(sections) ==
    IF sections = <<>> THEN Num(0)
    ELSE numPlus(totalSectionTimeOf(SubSeq(sections, 1, Len(sections) - 1)),
                 durationOrZero(sections[Len(sections)]))

\* getDefaultValue(field) for the fields of the artifact that are drawn
getDefaultValue(name) ==
    CASE name = "title"    -> "untitled"
      [] name = "duration" -> Num(30)
      [] name = "sections" -> <<[name |-> "main", duration |-> Num(30)]>>
      [] OTHER             -> "todo"

\* !content[field] for the fields drawn: a missing field, a duration of 0
falsyField(content, name) ==
    \/ ~has(content, name)
    \/ name = "duration" /\ ~truthyNum(content.duration)

\* validateRequiredFields(content), on title, duration and sections
validateRequiredFields(content) ==
    [name \in {"title", "duration", "sections"} |->
        IF falsyField(content, name) THEN getDefaultValue(name) ELSE content[name]]

\* adjustTimeAllocation(content)
adjustTimeAllocation(content) ==
    LET totalSectionTime == totalSectionTimeOf(content.sections)
        ratio == numDivide(content.duration, totalSectionTime)
    IN  IF totalSectionTime # content.duration
        THEN [content EXCEPT !.sections =
                [i \in 1..Len(content.sections) |->
                    [duration |->
                        MathRoundNum(numTimes(durationOrZero(content.sections[i]), ratio))]
                    @@ content.sections[i]]]
        ELSE content

\* postProcessContent(lessonContent, params)
postProcessContent(lessonContent, params, id) ==
    adjustTimeAllocation(validateRequiredFields(lessonContent))
        @@ [id |-> id,
            generatedFor |-> [userId |-> params.userId,
                              gradeLevel |-> params.gradeLevel,
                              specialty |-> params.specialty]]

(* --- SpecPostProcess: one artifact through postProcessContent ----------- *)

SectionDurations == {Num(d) : d \in 0..MaxSectionDuration}

DrawnSections ==
    {[name |-> "section"] @@ d : d \in Optional("duration", SectionDurations)}

DrawnSectionLists ==
    UNION {[1..n -> DrawnSections] : n \in 0..MaxSections}

TotalDurations == {Num(0), Num(4), Num(5)}

DrawnContents ==
    {[title |-> "title"] @@ d @@ s :
        d \in Optional("duration", TotalDurations),
        s \in Optional("sections", DrawnSectionLists)}

LessonIds == {"lesson_1_a", "lesson_1_b"}

PostProcessParams == [userId |-> 1, gradeLevel |-> "PGY1", specialty |-> "general"]

PostProcessInit ==
    /\ fn \in {[pc |-> "drawn", content |-> c] : c \in DrawnContents}
    /\ dec = DecIdle
    /\ reviews = <<>>
    /\ procs = <<>>
    /\ call = CallIdle
    /\ batch = BatchIdle

PostProcessContent ==
    /\ fn.pc = "drawn"
    /\ \E id \in LessonIds :
         fn' = [pc |-> "done", content |-> fn.content,
                result |-> postProcessContent(fn.content, PostProcessParams, id)]
    /\ FnOthersIdle

PostProcessNext == PostProcessContent

SpecPostProcess == PostProcessInit /\ [][PostProcessNext]_vars

\* C21: after postProcessContent the durations of the sections sum exactly to
\* the total duration of the artifact
C21_SectionsSumToDuration ==
    fn.pc = "done" =>
        totalSectionTimeOf(fn.result.sections) = fn.result.duration


-----------------------------------------------------------------------------
(* The state graph of a review row                                         *)

StatusEdges ==
    {<<reviewStages.PENDING, reviewStages.AUTO_REVIEW>>}
    \cup {<<reviewStages.AUTO_REVIEW, s>> :
            s \in {reviewStages.APPROVED, reviewStages.REJECTED,
                   reviewStages.HUMAN_REVIEW}}
    \cup {<<reviewStages.HUMAN_REVIEW, s>> : s \in TerminalStatuses}

\* C22: a row is created in pending, and every change of a row's status
\* follows an edge of the state graph: pending -> auto_review,
\* auto_review -> approved / rejected / human_review,
\* human_review -> approved / rejected / revision_required.
C22_StatusFollowsGraph ==
    [][/\ \A i \in DOMAIN reviews' \ DOMAIN reviews :
             reviews'[i].status = reviewStages.PENDING
       /\ \A i \in DOMAIN reviews :
             reviews'[i].status # reviews[i].status =>
                 <<reviews[i].status, reviews'[i].status>> \in StatusEdges]_vars


-----------------------------------------------------------------------------
(* batchCallAI: windows                                                    *)

\* the callAI invocations of the batch that have not settled
InFlight == {index \in DOMAIN batch.items : batch.items[index].pc = "calling"}

\* the requests that precede the window of request k (1-based)
EarlierWindows(k) == 1..(((k - 1) \div batch.maxConcurrency) * batch.maxConcurrency)

\* C23: the requests are handled in consecutive windows of maxConcurrency: at
\* most maxConcurrency callAI invocations of the batch are in flight, and a
\* request has been dispatched only if every request of the earlier windows
\* has finished all its attempts and has its entry in results.
C23_WindowsInOrder ==
    batch.pc # "idle" =>
        /\ Cardinality(InFlight) <= batch.maxConcurrency
        /\ \A k \in 1..batch.n :
              batch.calls[k] > 0 =>
                  /\ k <= batch.i + batch.maxConcurrency
                  /\ \A j \in EarlierWindows(k) : j <= Len(batch.results)

\* a later window is in flight, after a first window of maxConcurrency > 1
\* requests whose second request finished before its first
C23_Witness ==
    /\ batch.pc = "window"
    /\ batch.i > 0
    /\ batch.maxConcurrency > 1
    /\ InFlight # {}
    /\ batch.calls[1] > batch.calls[2]
    /\ batch.results[2].success


-----------------------------------------------------------------------------
(* SpecAssess: LessonQualityAssessment.assessLessonQuality on the four      *)
(* settled category calls.  The call as written always rejects              *)
(* (CategoryCallOutcomes); the responses a provider returns are drawn as    *)
(* well, so that the parsing and the aggregation are exercised.             *)

\* scores a response carries, in hundredths; -10 and 150 lie outside [0,1]
ResponseScores == {-10, 0, 50, 60, 89, 90, 100, 150}

\* what the awaited callAI of a category settles with: the rejection, prose,
\* JSON without a score, JSON with a score
AssessOutcomes ==
    CategoryCallOutcomes
    \cup {[kind |-> "text"]}
    \cup {[kind |-> "json", data |-> d] : d \in Optional("score", ResponseScores)}

AssessInit ==
    /\ fn \in {[pc |-> "settled", outcomes |-> o] :
                  o \in [DOMAIN assessmentCriteria -> AssessOutcomes]}
    /\ dec = DecIdle
    /\ reviews = <<>>
    /\ procs = <<>>
    /\ call = CallIdle
    /\ batch = BatchIdle

\* const results = await Promise.all(assessmentPromises) and the rest of
\* assessLessonQuality
AssessLessonQuality ==
    /\ fn.pc = "settled"
    /\ fn' = [pc |-> "done", outcomes |-> fn.outcomes,
              result |-> assessLessonQuality(fn.outcomes)]
    /\ FnOthersIdle

AssessNext == AssessLessonQuality

SpecAssess == AssessInit /\ [][AssessNext]_vars

\* 0.3*structure + 0.4*content + 0.2*pedagogy + 0.1*gradeAlignment, in
\* thousandths, of the category scores reported in the result
WeightedTotal(result) ==
    3 * result.categoryScores.structure.score
    + 4 * result.categoryScores.content.score
    + 2 * result.categoryScores.pedagogy.score
    + 1 * result.categoryScores.gradeAlignment.score

-----------------------------------------------------------------------------
(* SpecSelect: LessonGenerator.validateGenerationParams                    *)

\* AIService.selectBestModel(task, options)
selectBestModel(task, options) ==
    LET priority   == field(options, "priority", "quality")
        complexity == field(options, "complexity", "medium")
    IN  IF task = "lesson_generation"
        THEN IF priority = "quality" /\ complexity = "high" THEN "gpt-4"
             ELSE IF priority = "speed" THEN "gpt-3.5-turbo"
             ELSE "claude-3-sonnet"
        ELSE IF task = "medical_validation" THEN "claude-3-sonnet"
        ELSE IF task = "content_review" THEN "claude-3-haiku"
        ELSE "gpt-3.5-turbo"

\* validateGenerationParams(params): the validated parameters, or the throw
\* for a missing required parameter
validateGenerationParams(params) ==
    IF \E name \in {"userId", "templateId", "knowledgeBaseId", "gradeLevel"} :
           ~has(params, name)
    THEN [kind |-> "thrown"]
    ELSE LET selectedModel ==
                 IF has(params, "aiModel") THEN params.aiModel
                 ELSE selectBestModel("lesson_generation",
                          [complexity |-> IF has(params, "specialty")
                                          THEN "medium" ELSE "low"])
         IN  [kind |-> "returned",
              params |-> [aiModel |-> selectedModel] @@ params]

\* the requests drawn: the body of POST /generate-lesson (generateLessonSchema)
\* with userId and gradeLevel added by the route, and with each required
\* parameter possibly missing as a direct caller can leave it
GenerationRequests ==
    {u @@ t @@ k @@ g @@ s @@ m @@ p :
        u \in Optional("userId", {1}),
        t \in Optional("templateId", {1}),
        k \in Optional("knowledgeBaseId", {1}),
        g \in Optional("gradeLevel", {"UGY", "PGY1"}),
        s \in Optional("specialty", {"internal", "surgery"}),
        m \in Optional("aiModel", RegisteredModels),
        p \in Optional("priority", {"quality", "speed"})}

SelectInit ==
    /\ fn \in {[pc |-> "requested", params |-> r] : r \in GenerationRequests}
    /\ dec = DecIdle
    /\ reviews = <<>>
    /\ procs = <<>>
    /\ call = CallIdle
    /\ batch = BatchIdle

ValidateGenerationParams ==
    /\ fn.pc = "requested"
    /\ fn' = [pc |-> "done", params |-> fn.params,
              result |-> validateGenerationParams(fn.params)]
    /\ FnOthersIdle

SelectNext == ValidateGenerationParams

SpecSelect == SelectInit /\ [][SelectNext]_vars

\* C25: a request that names a model is generated with that model; one that
\* names none is generated with selectBestModel('lesson_generation', ...) of its
\* own priority and complexity: with gpt-3.5-turbo when its priority is speed,
\* and with gpt-4 only when its priority is quality and its complexity high.
C25_ModelFollowsRequest ==
    (fn.pc = "done" /\ fn.result.kind = "returned") =>
        LET aiModel == fn.result.params.aiModel
        IN  IF has(fn.params, "aiModel")
            THEN aiModel = fn.params.aiModel
            ELSE /\ field(fn.params, "priority", "quality") = "speed"
                      => aiModel = "gpt-3.5-turbo"
                 /\ aiModel = "gpt-4"
                      => field(fn.params, "priority", "quality") = "quality"


-----------------------------------------------------------------------------
(* The outcome of one startReviewProcess call                              *)

\* C26: a startReviewProcess call that returns reports the status persisted on
\* its row, and one that throws after creating its row does not leave that row
\* in pending or auto_review.
C26_ReturnsOrNoPartialTransition ==
    \A p \in DOMAIN procs :
        /\ procs[p].pc = "returned" =>
              reviews[procs[p].reviewId].status = procs[p].final.status
        /\ (procs[p].pc = "failed" /\ procs[p].reviewId # 0) =>
              reviews[procs[p].reviewId].status
                  \notin {reviewStages.PENDING, reviewStages.AUTO_REVIEW}


-----------------------------------------------------------------------------
(* The automatic outcomes over the validators' range                       *)

\* scores on the validators' 0..1 scale, in hundredths
InRangeScores == {0, 50, 80, 100}

AccuracyInRange ==
    {[kind |-> "error"], [kind |-> "nojson"]}
    \cup {JsonText([score |-> s, safetyIssues |-> l]) :
            s \in InRangeScores,
            l \in {<<>>, [i \in 1..MaxSafetyIssues |-> "issue"]}}

RelevanceInRange ==
    {[kind |-> "error"], [kind |-> "nojson"]}
    \cup {JsonText([score |-> s]) : s \in InRangeScores}

PedagogyInRange ==
    {[kind |-> "error"], [kind |-> "badjson"]}
    \cup {JsonText([score |-> s]) : s \in InRangeScores}

\* the four category calls with one outcome each: the rejection of the call as
\* written, and responses that would give every grade from F to A
QualityInRange ==
    {[c \in DOMAIN assessmentCriteria |-> o] :
        o \in CategoryCallOutcomes
              \cup {JsonText([score |-> s]) : s \in {50, 60, 70, 80, 90, 100}}}

\* performAutoReview's autoReviewResult and processAutoReviewResult's status
\* for the validators' outcomes
autoOutcome(acc, rel, ped, cats) ==
    LET medicalValidation == validateMedicalContent(acc, rel, ped)
        qualityAssessment == assessLessonQuality(cats)
    IN  processAutoReviewResult(
            [medicalValidation |-> medicalValidation,
             qualityAssessment |-> qualityAssessment,
             overallScore |-> ReviewWorkflow_calculateOverallScore(
                                  medicalValidation, qualityAssessment)]).status

\* the statuses startReviewProcess can end in when the validators answer
\* within their range
AutoOutcomesInRange ==
    {autoOutcome(acc, rel, ped, cats) :
        acc \in AccuracyInRange, rel \in RelevanceInRange,
        ped \in PedagogyInRange, cats \in QualityInRange}

\* C27: each automatic outcome is reachable through startReviewProcess: for a
\* call that has reached its validators there are validator scores in [0,1]
\* and a grade from A to F for which it ends approved, others for which it
\* ends in human_review, and others for which it ends rejected.
C27_EveryOutcomeReachable ==
    \A p \in DOMAIN procs :
        procs[p].pc = "validating" =>
            {reviewStages.APPROVED, reviewStages.HUMAN_REVIEW, reviewStages.REJECTED}
                \subseteq AutoOutcomesInRange


-----------------------------------------------------------------------------
(* The safety issues seen by the decision                                  *)

\* the calls whose processAutoReviewResult has decided
Decided == {p \in DOMAIN procs : "status" \in DOMAIN procs[p].final}

\* the safetyIssues list the medical-accuracy validator reported
reportedSafetyIssues(medicalValidation) ==
    field(medicalValidation.validation.medicalAccuracy, "safetyIssues", <<>>)

\* C28: the safety-issue count the decision evaluates is the number of entries
\* of the safetyIssues list reported by the medical-accuracy validator: with 3
\* or more the record is rejected for its safety issues, and with at least 1 it
\* is never approved.
C28_SafetyCountIsReportedCount ==
    \A p \in Decided :
        LET reported == Len(reportedSafetyIssues(procs[p].auto.medicalValidation))
            final == procs[p].final
        IN  /\ safetyIssuesCountOf(procs[p].auto.medicalValidation) = reported
            /\ reported >= autoReviewCriteria.autoReject.minSafetyIssues =>
                  /\ final.status = reviewStages.REJECTED
                  /\ \E i \in DOMAIN final.reasoning :
                        final.reasoning[i] = "major medical safety issues"
            /\ reported >= 1 => final.status # reviewStages.APPROVED


-----------------------------------------------------------------------------
(* Human decisions and the calls in flight                                 *)

\* C29: a human decision persisted on a row is never overwritten by the
\* automated pipeline: no step of a startReviewProcess call changes the status
\* of a row that carries a human decision.
C29_HumanDecisionNotOverwritten ==
    [][procs' # procs =>
          \A i \in DOMAIN reviews :
              reviews[i].human_review_decision # "null" =>
                  reviews'[i].status = reviews[i].status]_vars

====
